---- MODULE Spec2Model ----
(***************************************************************************)
(* Model of the lg life-logger CLI: the local storage document, the sync   *)
(* config document, the remote gists, the commands that run as one process *)
(* each (setup, log, list, list --sync, dashboard) and the gist sync code  *)
(* of src/utils/gistSync.ts (background push, full sync, setup merge).     *)
(***************************************************************************)
EXTENDS Integers, Sequences, FiniteSets, TLC

(* ------------------------------ bounds -------------------------------- *)
\* number of distinct timestamps (canonical ISO strings, 1 = oldest)
MaxTs == 2
\* longest storage / remote document drawn as an input
MaxLen == 2
\* longest storage document the dashboard grows
MaxStore == 4
\* longest storage document the dashboard grows next to the other commands
MaxSaved == 3
\* longest storage document the log command grows
MaxLogged == 2
\* longest command-line argument and largest number of arguments of log
MaxWord == 2
MaxArgs == 2
\* entries and timestamps of the stores listed, longest --limit value
MaxListed == 3
MaxListTs == 4
MaxLimit == 2
\* longest input line typed in the dashboard, longest document a keyboard
\* session grows, most saves awaiting their file write at once
MaxInput == 2
MaxTyped == 2
MaxPending == 2
\* number of gists holding the lg file the remote service holds at most
MaxGists == 1
\* number of clock ticks
MaxTicks == 2

(* ------------------------- program constants -------------------------- *)
SYNC_DEBOUNCE_MS == 5000
\* the clock advances in steps of half a debounce window
TickMs == SYNC_DEBOUNCE_MS \div 2
\* Date.now() of the first command: far more than one window after time 0
StartNow == 2 * SYNC_DEBOUNCE_MS

(* ------------------------------- data --------------------------------- *)
\* fetchGistEntries returns the parsed array or null
Null == [found |-> FALSE, entries |-> <<>>]
Found(entries) == [found |-> TRUE, entries |-> entries]
\* a gist without the file lg_cli_storage.json, and one holding it
NoFile == [hasFile |-> FALSE, entries |-> <<>>]
File(entries) == [hasFile |-> TRUE, entries |-> entries]
\* no storage file yet (setup not run), and the storage document
NoStore == [exists |-> FALSE, entries |-> <<>>]
Stored(entries) == [exists |-> TRUE, entries |-> entries]
\* a storage document that is no JSON: JSON.parse(data) throws a SyntaxError
Malformed == [exists |-> TRUE, entries |-> <<>>, text |-> "{"]
\* variant: every document is taken as parsed
parsesAnything(doc) == TRUE
parses(doc) == "text" \notin DOMAIN doc
\* no gist_config.json, and the config document {token, gistId?}
NoConfig == [exists |-> FALSE, token |-> "", gistId |-> 0]
Config(token, gistId) == [exists |-> TRUE, token |-> token, gistId |-> gistId]

\* a timestamp stands for the ISO string new Date().toISOString() writes;
\* the index orders the strings as the instants they denote
Timestamps == 1..MaxTs
Contents == {"a", "b"}
\* what the user types into log and the dashboard
Typed == {"a"}
LogEntry == [timestamp : Timestamps, content : Contents]

SeqsUpTo(S, n) == UNION {[1..k -> S] : k \in 0..n}

\* new Date(timestamp).getTime(): milliseconds of the instant; timestamp t
\* is the ISO string of the instant t clock steps after time 0
getTime(ts) == ts * TickMs

\* new Date(ms).toISOString()
toISOString(ms) == ms \div TickMs

\* the set of timestamps of an entry array
TimestampsOf(entries) == {entries[i].timestamp : i \in 1..Len(entries)}

\* number of entries of an array that carry a given timestamp
CountTs(entries, ts) == Cardinality({i \in 1..Len(entries) : entries[i].timestamp = ts})

\* variant: the operands of the subtraction swapped (oldest first)
compareOldestFirst(a, b) == getTime(a.timestamp) - getTime(b.timestamp)

\* (a, b) => new Date(b.timestamp).getTime() - new Date(a.timestamp).getTime()
compareNewestFirst(a, b) == getTime(b.timestamp) - getTime(a.timestamp)

\* Array.prototype.sort is stable: an element is placed after every element
\* that the comparator does not put behind it
RECURSIVE InsertSorted(_, _)
InsertSorted(e, s) ==
  IF s = <<>> THEN <<e>>
  ELSE IF compareNewestFirst(Head(s), e) <= 0
       THEN <<Head(s)>> \o InsertSorted(e, Tail(s))
       ELSE <<e>> \o s

RECURSIVE sortNewestFirst(_)
sortNewestFirst(s) ==
  IF s = <<>> THEN <<>>
  ELSE InsertSorted(s[Len(s)], sortNewestFirst(SubSeq(s, 1, Len(s) - 1)))

\* a.localeCompare(b) on two canonical ISO strings
localeCompare(a, b) == IF a < b THEN -1 ELSE IF a > b THEN 1 ELSE 0

\* (a, b) => b.timestamp.localeCompare(a.timestamp)
compareTimestampDesc(a, b) == localeCompare(b.timestamp, a.timestamp)

RECURSIVE InsertByTimestampDesc(_, _)
InsertByTimestampDesc(e, s) ==
  IF s = <<>> THEN <<e>>
  ELSE IF compareTimestampDesc(Head(s), e) <= 0
       THEN <<Head(s)>> \o InsertByTimestampDesc(e, Tail(s))
       ELSE <<e>> \o s

\* entries.sort((a, b) => b.timestamp.localeCompare(a.timestamp)), stable
RECURSIVE sortByTimestampDesc(_)
sortByTimestampDesc(s) ==
  IF s = <<>> THEN <<>>
  ELSE InsertByTimestampDesc(s[Len(s)], sortByTimestampDesc(SubSeq(s, 1, Len(s) - 1)))

\* (a, b) => a.timestamp.localeCompare(b.timestamp)
compareTimestampAsc(a, b) == localeCompare(a.timestamp, b.timestamp)

RECURSIVE InsertByTimestampAsc(_, _)
InsertByTimestampAsc(e, s) ==
  IF s = <<>> THEN <<e>>
  ELSE IF compareTimestampAsc(Head(s), e) <= 0
       THEN <<Head(s)>> \o InsertByTimestampAsc(e, Tail(s))
       ELSE <<e>> \o s

\* variant: the entries of a day are shown in their stored order
keepStoredOrder(s) == s

\* entriesForDate.sort((a, b) => a.timestamp.localeCompare(b.timestamp)), stable
RECURSIVE sortByTimestampAsc(_)
sortByTimestampAsc(s) ==
  IF s = <<>> THEN <<>>
  ELSE InsertByTimestampAsc(s[Len(s)], sortByTimestampAsc(SubSeq(s, 1, Len(s) - 1)))

\* variant: the key is the part of the timestamp after the 'T'
getTimePart(ts) == ts % 2

\* getDatePart: timestamp.split('T')[0]; two timestamps fall on one day
getDatePart(ts) == ts \div 2

\* groupEntriesByDate: the keys, and the entries grouped under a key
DatesOf(es) == {getDatePart(es[i].timestamp) : i \in 1..Len(es)}
groupEntriesByDate(es) ==
  [d \in DatesOf(es) |-> SelectSeq(es, LAMBDA e : getDatePart(e.timestamp) = d)]

\* dates.sort((a, b) => reverse ? b.localeCompare(a) : a.localeCompare(b))
RECURSIVE sortDates(_, _)
sortDates(dates, reverse) ==
  IF dates = {} THEN <<>>
  ELSE LET first == CHOOSE d \in dates :
                      \A o \in dates : IF reverse THEN o <= d ELSE d <= o
       IN <<first>> \o sortDates(dates \ {first}, reverse)

\* the value of --limit is a string; the empty one stands for an option
\* that is absent (undefined and '' are both falsy)
NoLimit == <<>>
Digits == {"0", "1", "2"}
LimitChars == Digits \cup {"x", "-"}
Limits == SeqsUpTo(LimitChars, MaxLimit)

digitValue(c) == IF c = "0" THEN 0 ELSE IF c = "1" THEN 1 ELSE 2

\* the longest prefix of decimal digits
RECURSIVE digitsPrefix(_)
digitsPrefix(str) ==
  IF str # <<>> /\ Head(str) \in Digits
  THEN <<Head(str)>> \o digitsPrefix(Tail(str))
  ELSE <<>>

RECURSIVE decimal(_)
decimal(ds) ==
  IF ds = <<>> THEN 0
  ELSE 10 * decimal(SubSeq(ds, 1, Len(ds) - 1)) + digitValue(ds[Len(ds)])

\* parseInt(str, 10): an optional sign, then the digits up to the first
\* character that is none; NaN when there is no digit
parseInt(str) ==
  LET negative == str # <<>> /\ Head(str) = "-"
      ds == digitsPrefix(IF negative THEN Tail(str) ELSE str)
  IN [nan |-> ds = <<>>,
      value |-> IF negative THEN 0 - decimal(ds) ELSE decimal(ds)]

isNaN(n) == n.nan

\* if (options.limit) { limit = parseInt(...); if (!isNaN(limit) && limit > 0)
\* dates = dates.slice(0, limit) }
applyLimit(dates, limit) ==
  IF limit = NoLimit THEN dates
  ELSE LET n == parseInt(limit) IN
       IF ~isNaN(n) /\ n.value > 0
       THEN SubSeq(dates, 1, IF n.value < Len(dates) THEN n.value ELSE Len(dates))
       ELSE dates

\* what list displays: the days in the chosen order, each with its entries
\* oldest first
shownDays(es, reverse, limit) ==
  LET groupedEntries == groupEntriesByDate(es)
      dates == applyLimit(sortDates(DOMAIN groupedEntries, reverse), limit)
  IN [i \in 1..Len(dates) |->
        [date |-> dates[i], entries |-> sortByTimestampAsc(groupedEntries[dates[i]])]]

\* variant: the merged array is built from the new remote entries alone
onlyNewRemoteEntries(localEntries, remoteEntries) ==
  SelectSeq(remoteEntries, LAMBDA r : r.timestamp \notin TimestampsOf(localEntries))

\* variant: the remote copy wins a tie (local entries the remote lacks are added)
addLocalEntries(localEntries, remoteEntries) ==
  remoteEntries \o
    SelectSeq(localEntries, LAMBDA l : l.timestamp \notin TimestampsOf(remoteEntries))

\* variant: every remote entry is pushed, the timestamp test left out
addAllRemoteEntries(localEntries, remoteEntries) == localEntries \o remoteEntries

\* existingTimestamps = new Set(local timestamps); every remote entry whose
\* timestamp is not in it is pushed onto the local array
addRemoteEntries(localEntries, remoteEntries) ==
  localEntries \o
    SelectSeq(remoteEntries, LAMBDA r : r.timestamp \notin TimestampsOf(localEntries))

\* the merge of performFullSync and initializeGistSync: push, then sort in place
mergeEntries(localEntries, remoteEntries) ==
  sortNewestFirst(addRemoteEntries(localEntries, remoteEntries))

\* isGistSyncConfigured / the config test of the sync functions
Configured(config) ==
  /\ config.exists
  /\ config.token # ""
  /\ config.gistId # 0

(* --------------------------- remote adapter --------------------------- *)
\* variant: the fetch never yields the remote entries
fetchNothing(gs, gistId, responseOk) == Null

\* fetchGistEntries: null when the request fails (caught) or the gist holds
\* no lg_cli_storage.json, the parsed array otherwise
fetchGistEntries(gs, gistId, responseOk) ==
  IF ~responseOk \/ gistId \notin 1..Len(gs) THEN Null
  ELSE IF ~gs[gistId].hasFile THEN Null
  ELSE Found(gs[gistId].entries)

\* updateGist: PATCH of the file; throws (ok = FALSE) on a failed response
updateGist(gs, gistId, entries, responseOk) ==
  IF responseOk /\ gistId \in 1..Len(gs)
  THEN [ok |-> TRUE, gists |-> [gs EXCEPT ![gistId] = File(entries)]]
  ELSE [ok |-> FALSE, gists |-> gs]

\* variant: the file is written into the first gist when there is one
createInPlace(gs, entries, responseOk) ==
  IF responseOk /\ gs # <<>>
  THEN [ok |-> TRUE, id |-> 1, gists |-> [gs EXCEPT ![1] = File(entries)]]
  ELSE IF responseOk
  THEN [ok |-> TRUE, id |-> 1, gists |-> <<File(entries)>>]
  ELSE [ok |-> FALSE, id |-> 0, gists |-> gs]

\* createGist: POST of a new gist holding the file; returns its id or throws
createGist(gs, entries, responseOk) ==
  IF responseOk /\ Cardinality({i \in 1..Len(gs) : gs[i].hasFile}) < MaxGists
  THEN [ok |-> TRUE, id |-> Len(gs) + 1, gists |-> Append(gs, File(entries))]
  ELSE [ok |-> FALSE, id |-> 0, gists |-> gs]

(* ------------------------------ full sync ----------------------------- *)
\* the outcome of a sync function: the array it returns, the remote after
\* it, the document it sent (if any), the requests it issued
SyncResult(path, entries, gs, sent, doc, ok, stamp, io) ==
  [path |-> path, entries |-> entries, gists |-> gs, sent |-> sent,
   doc |-> doc, ok |-> ok, stamp |-> stamp, io |-> io,
   thrown |-> sent /\ ~ok]

\* variant: the error of updateGist leaves the function
rethrown(res) == res

\* catch (error) { logger.error(...); return localEntries; }: an error
\* thrown in the body ends as a normal return of the caller's array
caught(res) == [res EXCEPT !.thrown = FALSE]

\* variant: the merge is made on a copy, the catch returns the array as it
\* was given
returnsGiven(localEntries, merged, ok) == IF ok THEN merged ELSE localEntries

\* return localEntries, after the update or from the catch: the caller's
\* array, which the merge loop and the sort have changed in place
returnsLocalEntries(localEntries, merged, ok) == merged

\* performFullSync past its two checks: fetch, then push local as-is (no
\* remote entries) or merge, sort, push and record the time
fullSyncOnline(localEntries, config, gs, fetchOk, updateOk) ==
  LET remoteEntries == fetchGistEntries(gs, config.gistId, fetchOk) IN
  IF ~remoteEntries.found
  THEN LET upd == updateGist(gs, config.gistId, localEntries, updateOk) IN
       SyncResult("noRemote", localEntries, upd.gists, TRUE, localEntries,
                  upd.ok, FALSE, <<"zen", "fetch", "update">>)
  ELSE LET merged == mergeEntries(localEntries, remoteEntries.entries)
           upd == updateGist(gs, config.gistId, merged, updateOk) IN
       SyncResult("merged", returnsLocalEntries(localEntries, merged, upd.ok),
                  upd.gists, TRUE, merged,
                  upd.ok, upd.ok, <<"zen", "fetch", "update">>)

\* variant: the result of isInternetAvailable is not tested
performFullSyncUnchecked(localEntries, config, gs, isOnline, fetchOk, updateOk) ==
  IF ~Configured(config)
  THEN SyncResult("unconfigured", localEntries, gs, FALSE, <<>>, FALSE, FALSE, <<>>)
  ELSE fullSyncOnline(localEntries, config, gs, fetchOk, updateOk)

\* performFullSync(localEntries); the local array is merged and sorted in
\* place, so the array returned after a failed push is the merged one
performFullSync(localEntries, config, gs, isOnline, fetchOk, updateOk) ==
  caught(IF ~Configured(config)
         THEN SyncResult("unconfigured", localEntries, gs, FALSE, <<>>, FALSE, FALSE, <<>>)
         ELSE IF ~isOnline
         THEN SyncResult("offline", localEntries, gs, FALSE, <<>>, FALSE, FALSE, <<"zen">>)
         ELSE fullSyncOnline(localEntries, config, gs, fetchOk, updateOk))

(* ------------------------------ setup sync ---------------------------- *)
\* the outcome of initializeGistSync: thrown, or {entries, gistId} with
\* sameRef telling whether entries is the caller's own array
InitResult(path, thrown, entries, sameRef, config, gs, sent, doc, io) ==
  [path |-> path, thrown |-> thrown, entries |-> entries, sameRef |-> sameRef,
   config |-> config, gists |-> gs, sent |-> sent, doc |-> doc, io |-> io]

\* variant: the config is written before the remote operation is awaited
saveGistConfigFirst(existingConfig, token, gistId, reached) == Config(token, gistId)

\* await saveGistConfig(token, gistId): the statement after the awaited
\* createGist or updateGist of its case, not reached when that call throws;
\* the config document afterwards
saveGistConfig(existingConfig, token, gistId, reached) ==
  IF reached THEN Config(token, gistId) ELSE existingConfig

initializeGistSync(token, localEntries, existingConfig, gs, fetchOk, writeOk) ==
  LET gistId == IF existingConfig.exists THEN existingConfig.gistId ELSE 0
      remoteEntries == IF gistId # 0 THEN fetchGistEntries(gs, gistId, fetchOk) ELSE Null
      fetchIo == IF gistId # 0 THEN <<"fetch">> ELSE <<>>
  IN
  IF gistId = 0 \/ ~remoteEntries.found
  THEN LET made == createGist(gs, localEntries, writeOk) IN
       IF made.ok
       THEN InitResult("created", FALSE, localEntries, TRUE,
                       saveGistConfig(existingConfig, token, made.id, TRUE),
                       made.gists, TRUE, localEntries, fetchIo \o <<"create">>)
       ELSE InitResult("created", TRUE, localEntries, TRUE,
                       saveGistConfig(existingConfig, token, gistId, FALSE),
                       gs, TRUE, localEntries, fetchIo \o <<"create">>)
  ELSE IF Len(localEntries) > 0 /\ Len(remoteEntries.entries) > 0
  THEN LET merged == mergeEntries(localEntries, remoteEntries.entries)
           upd == updateGist(gs, gistId, merged, writeOk) IN
       IF upd.ok
       THEN InitResult("merged", FALSE, merged, TRUE,
                       saveGistConfig(existingConfig, token, gistId, TRUE),
                       upd.gists, TRUE, merged, <<"fetch", "update">>)
       ELSE InitResult("merged", TRUE, merged, TRUE,
                       saveGistConfig(existingConfig, token, gistId, FALSE),
                       gs, TRUE, merged, <<"fetch", "update">>)
  ELSE IF Len(localEntries) = 0 /\ Len(remoteEntries.entries) > 0
  THEN InitResult("adopted", FALSE, remoteEntries.entries, FALSE,
                  saveGistConfig(existingConfig, token, gistId, TRUE),
                  gs, FALSE, <<>>, <<"fetch">>)
  ELSE IF Len(localEntries) > 0 /\ Len(remoteEntries.entries) = 0
  THEN LET upd == updateGist(gs, gistId, localEntries, writeOk) IN
       IF upd.ok
       THEN InitResult("pushed", FALSE, localEntries, TRUE,
                       saveGistConfig(existingConfig, token, gistId, TRUE),
                       upd.gists, TRUE, localEntries, <<"fetch", "update">>)
       ELSE InitResult("pushed", TRUE, localEntries, TRUE,
                       saveGistConfig(existingConfig, token, gistId, FALSE),
                       gs, TRUE, localEntries, <<"fetch", "update">>)
  ELSE InitResult("empty", FALSE, localEntries, TRUE,
                  saveGistConfig(existingConfig, token, gistId, TRUE),
                  gs, FALSE, <<>>, <<"fetch">>)

(* ------------------------------- state -------------------------------- *)
VARIABLES
  store,              \* ~/.lg/storage.json
  cfg,                \* ~/.lg/gist_config.json
  gists,              \* the remote service: gist id -> its document
  proc,               \* the running lg process: command, position, failure
  syncInProgress,     \* module state of gistSync.ts in the running process
  lastSyncTimestamp,  \* module state of gistSync.ts in the running process
  tasks,              \* background sync tasks in flight in the running process
  entries,            \* the dashboard's in-memory entries array
  now,                \* Date.now()
  io,                 \* requests issued by the last step
  sync,               \* record of the full / setup sync of the last command
  calls,              \* the last (two adjacent) syncWithGistInBackground calls
  last,               \* what the last step did about the background sync
  pushed,             \* time of the last successful push: ever, in this process
  cmdWrote,           \* the storage entries as the last command left them
  peer,               \* a second device sharing the gist: its store, its pending push
  ui,                 \* the dashboard's screen: mode, input line, boxes drawn
  racing              \* two log invocations running at once on this machine

vars == <<store, cfg, gists, proc, syncInProgress, lastSyncTimestamp, tasks,
          entries, now, io, sync, calls, last, pushed, cmdWrote, peer, ui, racing>>

\* the remote document the config points to
RemoteDoc(config, gs) ==
  IF config.exists /\ config.gistId \in 1..Len(gs) THEN gs[config.gistId] ELSE NoFile

RemoteOf == RemoteDoc(cfg, gists)

\* the --date option: absent, a date YYYY-MM-DD or a string that is no date
NoDate == 0 - 1
InvalidDate == 0 - 2

\* wrote: the process has written the storage document; cut: a network
\* check or a push of one of its background tasks has failed
\* error: the error the command reported
\* reverse, limit, out: the options of a list command and the days it showed
\* args, date, before: the arguments and the --date option of a log command
\* (or --last of remove) and the entries the storage document held when it
\* started
NoProc ==
  [kind |-> "none", pc |-> "none", failed |-> FALSE, wrote |-> FALSE, cut |-> FALSE,
   args |-> <<>>, date |-> NoDate, before |-> <<>>, error |-> "none",
   reverse |-> FALSE, limit |-> NoLimit, out |-> <<>>, picked |-> 0]
Proc(kind, pc) == [NoProc EXCEPT !.kind = kind, !.pc = pc]

\* a command that found lg not set up: it logs the error and returns
Refused(kind) == [Proc(kind, "done") EXCEPT !.error = "notSetUp"]

NoSync ==
  [op |-> "none", local |-> <<>>, before |-> NoFile, path |-> "none",
   entries |-> <<>>, sent |-> FALSE, doc |-> <<>>, ok |-> FALSE, thrown |-> FALSE,
   wrote |-> FALSE, after |-> "none", io |-> <<>>, saved |-> 0, fetchOk |-> FALSE]

\* the path of the last full sync when it pushed successfully, its result is
\* the storage document and the remote document is what it pushed
SyncedBy ==
  IF /\ sync.op = "full" /\ sync.ok
     /\ store.entries = sync.entries
     /\ RemoteOf = File(sync.doc)
  THEN sync.path ELSE "none"


GistDocs == {NoFile} \cup {File(e) : e \in SeqsUpTo(LogEntry, MaxLen)}

\* the modes of the dashboard
ENTRIES_VIEW == 0
INPUT_VIEW == 1
EDITING_MODE == 2

\* no dashboard on screen
NoUi ==
  [activeMode |-> ENTRIES_VIEW, currentInput |-> <<>>, inputCursor |-> 0,
   entriesBox |-> <<>>, tagsBox |-> <<>>, calendarBox |-> {}, message |-> "none",
   key |-> "none", from |-> ENTRIES_VIEW, saved |-> FALSE, destroyed |-> FALSE,
   saving |-> 0]

\* no log invocations racing
NoRacing == [runs |-> <<>>, before |-> <<>>, overlapped |-> FALSE]

\* the second device: idle, pushing after a log (pc = "push") or between the
\* fetch and the update of a full sync (pc = "update")
NoPeer == [store |-> <<>>, pc |-> "idle", doc |-> <<>>, path |-> "none"]

\* the state of a machine before the first command
Init ==
  /\ store = NoStore
  /\ cfg \in {NoConfig, Config("tok", 0)}
  /\ gists = <<>>
  /\ proc = NoProc
  /\ syncInProgress = FALSE
  /\ lastSyncTimestamp = 0
  /\ tasks = <<>>
  /\ entries = <<>>
  /\ now = StartNow
  /\ io = <<>>
  /\ sync = NoSync
  /\ calls = <<>>
  /\ last = "other"
  /\ pushed = [ever |-> 0, here |-> 0]
  /\ cmdWrote = <<>>
  /\ peer = NoPeer
  /\ ui = NoUi
  /\ racing = NoRacing

\* a machine whose storage document was filled by earlier log commands and
\* whose gist was written by this or another device
InitMerge ==
  /\ store \in {Stored(e) : e \in SeqsUpTo(LogEntry, MaxLen)}
  /\ cfg \in {NoConfig, Config("tok", 0), Config("tok", 1)}
  /\ gists \in {<<>>} \cup {<<d>> : d \in GistDocs}
  /\ proc = NoProc
  /\ syncInProgress = FALSE
  /\ lastSyncTimestamp = 0
  /\ tasks = <<>>
  /\ entries = <<>>
  /\ now = StartNow
  /\ io = <<>>
  /\ sync = NoSync
  /\ calls = <<>>
  /\ last = "other"
  /\ pushed = [ever |-> 0, here |-> 0]
  /\ cmdWrote = store.entries
  /\ peer = NoPeer
  /\ ui = NoUi
  /\ racing = NoRacing

(* --------------------------- background sync -------------------------- *)
\* variant: the debounce test left out
skipWhenInProgress == syncInProgress

\* variant: the in-progress test left out
skipWhenRecent == now - lastSyncTimestamp < SYNC_DEBOUNCE_MS

\* if (syncInProgress || now - lastSyncTimestamp < SYNC_DEBOUNCE_MS) return
shouldSkip == syncInProgress \/ now - lastSyncTimestamp < SYNC_DEBOUNCE_MS

InWindow(t) == t # 0 /\ now - t < SYNC_DEBOUNCE_MS

CallRecord(started) ==
  [started |-> started, inFlight |-> tasks # <<>>, window |-> InWindow(pushed.ever),
   recent |-> InWindow(pushed.here), upd |-> 0, blocked |-> FALSE, fin |-> ~started]

\* the call records kept when a new call is made: the previous call if it
\* was made by the step just before
KeptCalls == IF last = "call" /\ calls # <<>> THEN <<calls[Len(calls)]>> ELSE <<>>

Retag(t) ==
  [t EXCEPT !.tag = IF KeptCalls # <<>> /\ t.tag = Len(calls) THEN 1 ELSE 0]

\* a step that does not call syncWithGistInBackground
NoBackgroundCall ==
  /\ UNCHANGED <<syncInProgress, lastSyncTimestamp, tasks, gists, calls, pushed>>
  /\ last' = "nocall"
  /\ io' = <<>>

\* a step whose isGistSyncConfigured() check came out false
NotConfigured ==
  /\ UNCHANGED <<syncInProgress, lastSyncTimestamp, tasks, gists, calls, pushed>>
  /\ last' = "unconfigured"
  /\ io' = <<>>

\* variant: the body is awaited, the push is done before the call returns
syncWithGistAwaited(localEntries) ==
  LET upd == updateGist(gists, cfg.gistId, localEntries, TRUE) IN
  /\ last' = "call"
  /\ io' = <<"zen", "update">>
  /\ gists' = upd.gists
  /\ lastSyncTimestamp' = IF upd.ok THEN now ELSE lastSyncTimestamp
  /\ pushed' = IF upd.ok THEN [ever |-> now, here |-> now] ELSE pushed
  /\ calls' = KeptCalls \o <<[CallRecord(TRUE) EXCEPT !.upd = 1, !.fin = TRUE]>>
  /\ UNCHANGED <<syncInProgress, tasks>>

\* syncWithGistInBackground(localEntries): returns at once; the async body
\* runs later as a task
syncWithGistInBackground(localEntries) ==
  /\ last' = "call"
  /\ io' = <<>>
  /\ UNCHANGED <<lastSyncTimestamp, gists, pushed>>
  /\ IF shouldSkip
     THEN /\ UNCHANGED syncInProgress
          /\ tasks' = [i \in 1..Len(tasks) |-> Retag(tasks[i])]
          /\ calls' = KeptCalls \o <<CallRecord(FALSE)>>
     ELSE /\ syncInProgress' = TRUE
          /\ calls' = KeptCalls \o <<CallRecord(TRUE)>>
          /\ tasks' = [i \in 1..Len(tasks) |-> Retag(tasks[i])] \o
                        <<[pc |-> "loadConfig", entriesToSync |-> localEntries,
                           called |-> localEntries,
                           config |-> NoConfig, tag |-> Len(KeptCalls) + 1]>>

\* if (await isGistSyncConfigured()) syncWithGistInBackground(entries)
SyncIfConfigured(localEntries) ==
  IF Configured(cfg) THEN syncWithGistInBackground(localEntries) ELSE NotConfigured

RemoveAt(s, i) == SubSeq(s, 1, i - 1) \o SubSeq(s, i + 1, Len(s))

\* variant: the task ends without its finally block, the flag stays set
EndTaskFlagKept(i, upd, blocked) ==
  /\ tasks' = RemoveAt(tasks, i)
  /\ UNCHANGED syncInProgress
  /\ calls' = IF tasks[i].tag \in 1..Len(calls)
              THEN [calls EXCEPT ![tasks[i].tag] =
                      [@ EXCEPT !.fin = TRUE, !.upd = upd, !.blocked = blocked]]
              ELSE calls

\* the task ends: finally { syncInProgress = false }
EndTask(i, upd, blocked) ==
  /\ tasks' = RemoveAt(tasks, i)
  /\ syncInProgress' = FALSE
  /\ calls' = IF tasks[i].tag \in 1..Len(calls)
              THEN [calls EXCEPT ![tasks[i].tag] =
                      [@ EXCEPT !.fin = TRUE, !.upd = upd, !.blocked = blocked]]
              ELSE calls

\* catch (error) { logger.error(...) }: TRUE when the error leaves the task
onBackgroundError == FALSE

\* const config = await loadGistConfig(); unconfigured: skip
BgLoadConfig(i) ==
  /\ tasks[i].pc = "loadConfig"
  /\ IF ~Configured(cfg)
     THEN EndTask(i, 0, TRUE)
     ELSE /\ tasks' = [tasks EXCEPT ![i] = [@ EXCEPT !.pc = "checkOnline", !.config = cfg]]
          /\ UNCHANGED <<syncInProgress, calls>>
  /\ io' = <<>>
  /\ last' = "other"
  /\ UNCHANGED <<store, cfg, gists, proc, lastSyncTimestamp, entries, now, sync,
                 pushed, cmdWrote>>
  /\ UNCHANGED <<peer, ui, racing>>

\* const isOnline = await isInternetAvailable(); offline: skip
BgCheckOnline(i) ==
  /\ tasks[i].pc = "checkOnline"
  /\ \E isOnline \in BOOLEAN :
       IF ~isOnline
       THEN /\ EndTask(i, 0, TRUE)
            /\ proc' = [proc EXCEPT !.cut = TRUE]
       ELSE /\ tasks' = [tasks EXCEPT ![i] = [@ EXCEPT !.pc = "update"]]
            /\ UNCHANGED <<syncInProgress, calls, proc>>
  /\ io' = <<"zen">>
  /\ last' = "other"
  /\ UNCHANGED <<store, cfg, gists, lastSyncTimestamp, entries, now, sync,
                 pushed, cmdWrote>>
  /\ UNCHANGED <<peer, ui, racing>>

\* variant: no clone is taken, the caller's array is sent as it is when the
\* request is made
callersArray(t) == IF proc.kind = "dashboard" THEN entries ELSE t.entriesToSync

\* the entries the task sends: entriesToSync, the clone taken by
\* JSON.parse(JSON.stringify(localEntries)) when the call was made
entriesSent(t) == t.entriesToSync

\* variant: the time is recorded whatever updateGist answered
stampAlways(ok) == now

\* lastSyncTimestamp = Date.now(), the statement after await updateGist(...):
\* it is not reached when updateGist throws
stampAfterUpdate(ok) == IF ok THEN now ELSE lastSyncTimestamp

\* await updateGist(config.token, config.gistId, entriesToSync);
\* lastSyncTimestamp = Date.now(); a failure is logged
BgUpdate(i) ==
  /\ tasks[i].pc = "update"
  /\ \E responseOk \in BOOLEAN :
       LET upd == updateGist(gists, tasks[i].config.gistId, entriesSent(tasks[i]),
                             responseOk) IN
       /\ gists' = upd.gists
       /\ lastSyncTimestamp' = stampAfterUpdate(upd.ok)
       /\ pushed' = IF upd.ok THEN [ever |-> now, here |-> now] ELSE pushed
       /\ proc' = IF upd.ok THEN proc
                  ELSE [proc EXCEPT !.failed = onBackgroundError, !.cut = TRUE]
  /\ EndTask(i, 1, FALSE)
  /\ io' = <<"update">>
  /\ last' = "other"
  /\ UNCHANGED <<store, cfg, entries, now, sync, cmdWrote>>
  /\ UNCHANGED <<peer, ui, racing>>

\* variant: the commands take lg for set up
setupAssumed == TRUE

\* isSetupComplete(): fs.access(STORAGE_FILE) succeeds
isSetupComplete == store.exists

(* ------------------------------ commands ------------------------------ *)
Tokens == {"", "tok"}

\* variant: setup writes the empty array whether or not the document exists
storageOverwritten == Stored(<<>>)

\* the storage document after setup's first part: left alone when lg is
\* already set up, else created holding []
storageCreated == IF isSetupComplete THEN store ELSE Stored(<<>>)

\* lg setup: create the storage document if missing, then (on yes)
\* configureGistSync: initializeGistSync and, when it returned another
\* array than the one read, write that array to the storage document
SetupCmd(setupGistSync, token, fetchOk, writeOk) ==
  /\ proc = NoProc
  /\ LET created == storageCreated
         res == initializeGistSync(token, created.entries, cfg, gists, fetchOk, writeOk)
     IN
     IF ~setupGistSync \/ token = ""
     THEN /\ store' = created
          /\ cmdWrote' = created.entries
          /\ io' = <<>>
          /\ sync' = NoSync
          /\ UNCHANGED <<cfg, gists, pushed>>
     ELSE /\ store' = IF ~res.thrown /\ ~res.sameRef THEN Stored(res.entries) ELSE created
          /\ cmdWrote' = store'.entries
          /\ cfg' = res.config
          /\ gists' = res.gists
          /\ io' = res.io
          /\ pushed' = pushed
          /\ sync' = [op |-> "init", local |-> created.entries,
                      before |-> RemoteDoc(cfg, gists), path |-> res.path,
                      entries |-> res.entries, sent |-> res.sent, doc |-> res.doc,
                      ok |-> res.sent /\ ~res.thrown, thrown |-> res.thrown,
                      wrote |-> ~res.thrown /\ ~res.sameRef, after |-> "none",
                      io |-> res.io,
                      saved |-> IF cfg.exists THEN cfg.gistId ELSE 0,
                      fetchOk |-> cfg.exists /\ cfg.gistId # 0 /\ fetchOk]
  /\ proc' = Proc("setup", "done")
  /\ last' = "other"
  /\ UNCHANGED <<syncInProgress, lastSyncTimestamp, tasks, entries, now, calls>>
  /\ UNCHANGED <<peer, ui, racing>>

\* a string is the sequence of its characters
Chars == {"x", " "}
Strings == SeqsUpTo(Chars, MaxWord)
ArgLists == SeqsUpTo(Strings, MaxArgs)

\* variant: the content is taken untrimmed
noTrim(str) == str

\* String.prototype.trim
\* the white space trim removes, of the characters drawn here
WhiteSpace == {" ", "\n"}

RECURSIVE trimStart(_)
trimStart(str) ==
  IF str # <<>> /\ Head(str) \in WhiteSpace THEN trimStart(Tail(str)) ELSE str

RECURSIVE trimEnd(_)
trimEnd(str) ==
  IF str # <<>> /\ str[Len(str)] \in WhiteSpace
  THEN trimEnd(SubSeq(str, 1, Len(str) - 1)) ELSE str

trim(str) == trimEnd(trimStart(str))

\* args.join(' ')
RECURSIVE join(_)
join(args) ==
  IF args = <<>> THEN <<>>
  ELSE IF Len(args) = 1 THEN args[1]
  ELSE args[1] \o <<" ">> \o join(Tail(args))

\* variant: the new entry is put in front, as the dashboard does
unshiftEntry(read, newEntry) == <<newEntry>> \o read

\* entries.push(newEntry) on the array parsed from the storage document
pushEntry(read, newEntry) == Append(read, newEntry)

\* JSON.parse(data) throws in a command: its catch logs and rethrows, and
\* the action handler of index.ts ends the process with exit code 1
parseFails(kind) ==
  /\ proc = NoProc
  /\ proc' = [Proc(kind, "done") EXCEPT !.failed = TRUE, !.error = "SyntaxError"]
  /\ NoBackgroundCall
  /\ sync' = NoSync
  /\ UNCHANGED <<store, cmdWrote, cfg, entries, now, peer, ui, racing>>

\* lg log <content> [--date]: addLogEntry up to its background sync
addLogEntry(content, ts, args, date) ==
  IF isSetupComplete /\ ~parses(store) THEN parseFails("log") ELSE
  /\ proc = NoProc
  /\ Len(store.entries) < MaxLogged
  /\ IF ~isSetupComplete
     THEN /\ proc' = Refused("log")
          /\ NoBackgroundCall
          /\ UNCHANGED <<store, cmdWrote>>
     ELSE LET written == pushEntry(store.entries, [timestamp |-> ts, content |-> content]) IN
          /\ store' = Stored(written)
          /\ cmdWrote' = written
          /\ SyncIfConfigured(written)
          /\ proc' = [Proc("log", "list") EXCEPT !.wrote = TRUE, !.args = args,
                                                 !.date = date, !.before = store.entries]
  /\ sync' = NoSync
  /\ UNCHANGED <<cfg, entries, now>>
  /\ UNCHANGED <<peer, ui, racing>>

\* lg log <content>, the content and the timestamp given
LogCmd(content, ts) == addLogEntry(content, ts, <<>>, NoDate)

\* addLogEntry's await listCommand.execute([], {}): list without --sync
LogList ==
  /\ proc.kind = "log" /\ proc.pc = "list"
  /\ IF Len(store.entries) = 0
     THEN NoBackgroundCall
     ELSE SyncIfConfigured(store.entries)
  /\ proc' = [proc EXCEPT !.pc = "done"]
  /\ UNCHANGED <<store, cfg, entries, now, sync, cmdWrote>>
  /\ UNCHANGED <<peer, ui, racing>>

\* answers of the prompts of remove: a date or Cancel; All, an index or Cancel
Cancel == 0 - 1
All == 0
Dates == {getDatePart(ts) : ts \in Timestamps}

DateOptions == Dates \cup {NoDate, InvalidDate}

\* new Date('YYYY-MM-DD'): midnight UTC, the first instant of the day
dateOf(date) == getTime(2 * date)

\* logCommand.execute(args, options): the content from the arguments or,
\* when they give none, from the prompt; then addLogEntry(content, date),
\* in which new Date(customDate).toISOString() throws on an invalid date
LogArgsCmd(args, date, answer) ==
  LET fromArgs == trim(join(args))
      content == IF fromArgs # <<>> THEN fromArgs ELSE trim(answer)
  IN
  IF ~isSetupComplete \/ content = <<>> \/ (date = InvalidDate /\ parses(store))
  THEN /\ proc = NoProc
       /\ proc' = [(IF isSetupComplete THEN Proc("log", "done") ELSE Refused("log"))
                     EXCEPT !.failed = isSetupComplete /\ content # <<>>,
                            !.args = args, !.date = date, !.before = store.entries]
       /\ NoBackgroundCall
       /\ sync' = NoSync
       /\ UNCHANGED <<store, cmdWrote, cfg, entries, now, peer, ui, racing>>
  ELSE addLogEntry(content,
                   IF date = NoDate THEN toISOString(now) ELSE toISOString(dateOf(date)),
                   args, date)

\* variant: the oldest entry is taken as the last one
removeOldest(es) == SubSeq(sortByTimestampDesc(es), 1, Len(es) - 1)

\* removeLastEntry: sort newest first in place, drop entries[0]
removeLast(es) == Tail(sortByTimestampDesc(es))

\* variant: the later days go with the selected day
removeDayAndAfter(es, date) == SelectSeq(es, LAMBDA e : getDatePart(e.timestamp) < date)

\* handleDateSelection, "All entries for this day"
removeAllForDate(es, date) == SelectSeq(es, LAMBDA e : getDatePart(e.timestamp) # date)

\* the entry picked from the day's list, shown newest first
entryToRemove(es, date, index) == sortByTimestampDesc(groupEntriesByDate(es)[date])[index]

\* variant: the picked entry alone is taken out
removePicked(es, date, index) ==
  RemoveAt(es, CHOOSE i \in 1..Len(es) :
                 /\ es[i] = entryToRemove(es, date, index)
                 /\ \A j \in 1..(i - 1) : es[j] # es[i])

\* handleDateSelection, one entry picked from the day's list (newest first):
\* every entry with the picked entry's timestamp is filtered out
removeEntry(es, date, index) ==
  SelectSeq(es, LAMBDA e : e.timestamp # entryToRemove(es, date, index).timestamp)

\* variant: the answer to the confirmation of --last is not looked at
confirmIgnored(mode, date, selectedEntry, confirm) ==
  mode # "last" /\ (date = Cancel \/ selectedEntry = Cancel)

\* the flow ends without a removal: --last not confirmed, or Cancel chosen
\* at the date or at the entry prompt
isCancelled(mode, date, selectedEntry, confirm) ==
  IF mode = "last" THEN ~confirm ELSE date = Cancel \/ selectedEntry = Cancel

\* lg remove [--last | --date]: up to the write of the storage document
RemoveCmd(mode, selectedDate, selectedEntry, confirm) ==
  IF isSetupComplete /\ ~parses(store) THEN parseFails("remove") ELSE
  /\ proc = NoProc
  /\ IF ~isSetupComplete \/ Len(store.entries) = 0
     THEN /\ proc' = IF isSetupComplete THEN Proc("remove", "done") ELSE Refused("remove")
          /\ UNCHANGED <<store, cmdWrote>>
     ELSE LET es == store.entries
              dates == DatesOf(es)
              lastDate == CHOOSE d \in dates : \A o \in dates : o <= d
              date == IF mode = "default" THEN lastDate ELSE selectedDate
              cancelled == isCancelled(mode, date, selectedEntry, confirm)
              answered == IF mode = "last" THEN (IF confirm THEN 0 ELSE Cancel)
                          ELSE IF date = Cancel \/ selectedEntry = Cancel THEN Cancel
                          ELSE IF selectedEntry = All THEN 0
                          ELSE entryToRemove(es, date, selectedEntry).timestamp
              updated == IF mode = "last" THEN removeLast(es)
                         ELSE IF selectedEntry = All THEN removeAllForDate(es, date)
                         ELSE removeEntry(es, date, selectedEntry)
          IN
          /\ mode # "last" /\ ~cancelled =>
                /\ date \in dates
                /\ selectedEntry \in 0..Len(groupEntriesByDate(es)[date])
          /\ IF cancelled
             THEN /\ proc' = [Proc("remove", "done") EXCEPT !.picked = answered]
                  /\ UNCHANGED <<store, cmdWrote>>
             ELSE /\ store' = Stored(updated)
                  /\ cmdWrote' = updated
                  /\ proc' = [Proc("remove", "list") EXCEPT
                                !.wrote = TRUE,
                                !.args = IF mode = "last" THEN <<"--last">>
                                         ELSE IF mode = "date" THEN <<"--date">>
                                         ELSE <<>>,
                                !.date = IF mode # "last" /\ selectedEntry = All
                                         THEN date ELSE NoDate,
                                !.before = IF mode = "last" THEN es ELSE <<>>,
                                !.picked = answered]
  /\ NoBackgroundCall
  /\ sync' = NoSync
  /\ UNCHANGED <<cfg, entries, now>>
  /\ UNCHANGED <<peer, ui, racing>>

\* the await listCommand.execute([], {}) that ends a removal
RemoveList ==
  /\ proc.kind = "remove" /\ proc.pc = "list"
  /\ IF Len(store.entries) = 0
     THEN NoBackgroundCall
     ELSE SyncIfConfigured(store.entries)
  /\ proc' = [proc EXCEPT !.pc = "done"]
  /\ UNCHANGED <<store, cfg, entries, now, sync, cmdWrote>>
  /\ UNCHANGED <<peer, ui, racing>>

\* variant: list runs the full sync whenever sync is configured
fullSyncAlways(optSync) == Configured(cfg)

\* if (options.sync && (await isGistSyncConfigured())): the branch that runs
\* performFullSync and writes the storage document
fullSyncTaken(optSync) == optSync /\ Configured(cfg)

\* lg list [--reverse] [--sync]
ListOptsCmd(reverse, limit, optSync, isOnline, fetchOk, updateOk) ==
  IF isSetupComplete /\ ~parses(store) THEN parseFails("list") ELSE
  /\ proc = NoProc
  /\ proc' = IF ~isSetupComplete THEN Refused("list")
             ELSE IF Len(store.entries) = 0 THEN Proc("list", "done")
             ELSE [Proc("list", "done") EXCEPT
                     !.reverse = reverse, !.limit = limit,
                     !.out = shownDays(IF fullSyncTaken(optSync)
                                       THEN performFullSync(store.entries, cfg, gists,
                                                            isOnline, fetchOk, updateOk).entries
                                       ELSE store.entries,
                                       reverse, limit)]
  /\ IF ~isSetupComplete \/ Len(store.entries) = 0
     THEN /\ NoBackgroundCall
          /\ sync' = NoSync
          /\ UNCHANGED <<store, cmdWrote>>
     ELSE IF fullSyncTaken(optSync)
     THEN LET res == performFullSync(store.entries, cfg, gists, isOnline, fetchOk, updateOk) IN
          /\ store' = Stored(res.entries)
          /\ cmdWrote' = res.entries
          /\ gists' = res.gists
          /\ io' = res.io
          /\ lastSyncTimestamp' = IF res.stamp THEN now ELSE lastSyncTimestamp
          /\ pushed' = IF res.sent /\ res.ok THEN [ever |-> now, here |-> now] ELSE pushed
          /\ sync' = [op |-> "full", local |-> store.entries,
                      before |-> RemoteDoc(cfg, gists), path |-> res.path,
                      entries |-> res.entries, sent |-> res.sent, doc |-> res.doc,
                      ok |-> res.sent /\ res.ok, thrown |-> res.thrown, wrote |-> TRUE,
                      after |-> SyncedBy, io |-> res.io,
                      saved |-> cfg.gistId, fetchOk |-> isOnline /\ fetchOk]
          /\ last' = "nocall"
          /\ UNCHANGED <<syncInProgress, tasks, calls>>
     ELSE /\ SyncIfConfigured(store.entries)
          /\ sync' = NoSync
          /\ UNCHANGED <<store, cmdWrote>>
  /\ UNCHANGED <<cfg, entries, now>>
  /\ UNCHANGED <<peer, ui, racing>>

\* lg list [--sync] in the default day order
ListCmd(optSync, isOnline, fetchOk, updateOk) ==
  ListOptsCmd(FALSE, NoLimit, optSync, isOnline, fetchOk, updateOk)

\* lg [message...]: the default command forwards to log, or to list when
\* the user picks it at the prompt
DefaultCmd(action, content, ts) ==
  IF ~isSetupComplete
  THEN /\ proc = NoProc
       /\ proc' = Refused("default")
       /\ NoBackgroundCall
       /\ sync' = NoSync
       /\ UNCHANGED <<store, cmdWrote, cfg, entries, now, peer, ui, racing>>
  ELSE IF action = "log" THEN LogCmd(content, ts)
  ELSE ListCmd(FALSE, FALSE, FALSE, FALSE)

\* lg dashboard: read the entries, sort them newest first, open the screen
openDashboard ==
  /\ proc = NoProc
  /\ IF ~isSetupComplete \/ Len(store.entries) = 0
     THEN /\ proc' = IF isSetupComplete THEN Proc("dashboard", "done")
                     ELSE Refused("dashboard")
          /\ UNCHANGED entries
     ELSE /\ proc' = Proc("dashboard", "run")
          /\ entries' = sortNewestFirst(store.entries)
  /\ NoBackgroundCall
  /\ sync' = NoSync
  /\ UNCHANGED <<store, cfg, now, cmdWrote>>

DashboardOpen == openDashboard /\ UNCHANGED <<peer, ui, racing>>

\* Ctrl+S in the dashboard: unshift the new entry, write the array, sync
saveEntry(content, ts) ==
  /\ proc.kind = "dashboard" /\ proc.pc = "run"
  /\ Len(entries) < MaxStore
  /\ entries' = <<[timestamp |-> ts, content |-> content]>> \o entries
  /\ store' = Stored(entries')
  /\ cmdWrote' = entries'
  /\ SyncIfConfigured(entries')
  /\ proc' = [proc EXCEPT !.wrote = TRUE]
  /\ UNCHANGED <<cfg, now, sync>>

DashboardSave(content, ts) == saveEntry(content, ts) /\ UNCHANGED <<peer, ui, racing>>

\* q / Ctrl+C in the dashboard: process.exit(0); a push already sent may
\* still reach the gist
exitDashboard ==
  /\ proc.kind = "dashboard" /\ proc.pc = "run"
  /\ \E delivered \in BOOLEAN :
       gists' = IF delivered /\ tasks # <<>> /\ tasks[1].pc = "update"
                THEN updateGist(gists, tasks[1].config.gistId,
                                entriesSent(tasks[1]), TRUE).gists
                ELSE gists
  /\ proc' = NoProc
  /\ syncInProgress' = FALSE
  /\ lastSyncTimestamp' = 0
  /\ tasks' = <<>>
  /\ entries' = <<>>
  /\ calls' = <<>>
  /\ last' = "other"
  /\ io' = <<>>
  /\ pushed' = [pushed EXCEPT !.here = 0]
  /\ UNCHANGED <<store, cfg, now, sync, cmdWrote>>

DashboardQuit == exitDashboard /\ UNCHANGED <<peer, ui, racing>>

(* ---------------------------- dashboard keys --------------------------- *)
\* the keys pressed: characters (e, i and q are also bound to handlers) and
\* named keys; Ctrl+S is KeySave
WordChars == {"e", "i", "q"}
Printable == WordChars \cup {"#", " "}
Keys == Printable \cup {"tab", "escape", "enter", "backspace", "C-c"}
CursorKeys == {"delete", "left", "right", "home", "end"}

\* Object.keys(groupEntriesByDate(entries)): the days in order of first entry
RECURSIVE datesInOrder(_)
datesInOrder(es) ==
  IF es = <<>> THEN <<>>
  ELSE LET d == getDatePart(Head(es).timestamp)
       IN <<d>> \o SelectSeq(datesInOrder(Tail(es)), LAMBDA x : x # d)

\* the content of the entries box: a heading per day and that day's entries
entriesContent(es) ==
  [k \in 1..Len(datesInOrder(es)) |->
     [date |-> datesInOrder(es)[k],
      entries |-> groupEntriesByDate(es)[datesInOrder(es)[k]]]]

\* content.match(/#\w+/g): every # followed by its longest run of word characters
RECURSIVE wordRun(_, _)
wordRun(str, i) ==
  IF i <= Len(str) /\ str[i] \in WordChars THEN <<str[i]>> \o wordRun(str, i + 1)
  ELSE <<>>

RECURSIVE matchTags(_, _)
matchTags(str, i) ==
  IF i > Len(str) THEN <<>>
  ELSE IF str[i] = "#" /\ wordRun(str, i + 1) # <<>>
       THEN <<(<<"#">> \o wordRun(str, i + 1))>>
            \o matchTags(str, i + 1 + Len(wordRun(str, i + 1)))
       ELSE matchTags(str, i + 1)

RECURSIVE allTags(_)
allTags(es) ==
  IF es = <<>> THEN <<>> ELSE matchTags(Head(es).content, 1) \o allTags(Tail(es))

\* extractTags: tag -> number of occurrences
extractTags(es) ==
  [t \in {allTags(es)[k] : k \in 1..Len(allTags(es))} |->
     Cardinality({k \in 1..Len(allTags(es)) : allTags(es)[k] = t})]

\* generateCalendar: the days of the month shown in bold
generateCalendar(es) == DatesOf(es)

\* the screen as execute builds it: the three boxes filled from the entries
Drawn(es) ==
  [NoUi EXCEPT !.entriesBox = entriesContent(es),
               !.tagsBox = extractTags(es),
               !.calendarBox = generateCalendar(es)]

\* lg dashboard with its screen
ScreenOpen ==
  /\ openDashboard
  /\ ui' = IF isSetupComplete /\ Len(store.entries) > 0
           THEN Drawn(sortNewestFirst(store.entries)) ELSE NoUi
  /\ UNCHANGED <<peer, racing>>

\* screen.on('keypress'): in EDITING_MODE the key edits the input line
keypress(u, k) ==
  IF u.activeMode # EDITING_MODE THEN u
  ELSE IF k = "backspace"
       THEN IF u.inputCursor > 0
            THEN [u EXCEPT !.currentInput =
                             SubSeq(@, 1, u.inputCursor - 1)
                             \o SubSeq(@, u.inputCursor + 1, Len(@)),
                           !.inputCursor = @ - 1]
            ELSE u
  ELSE IF k = "delete"
       THEN [u EXCEPT !.currentInput =
                        SubSeq(@, 1, u.inputCursor) \o SubSeq(@, u.inputCursor + 2, Len(@))]
  ELSE IF k = "left"
       THEN IF u.inputCursor > 0 THEN [u EXCEPT !.inputCursor = @ - 1] ELSE u
  ELSE IF k = "right"
       THEN IF u.inputCursor < Len(u.currentInput)
            THEN [u EXCEPT !.inputCursor = @ + 1] ELSE u
  ELSE IF k = "home" THEN [u EXCEPT !.inputCursor = 0]
  ELSE IF k = "end" THEN [u EXCEPT !.inputCursor = Len(u.currentInput)]
  ELSE IF k \in Printable
       THEN [u EXCEPT !.currentInput =
                        SubSeq(@, 1, u.inputCursor) \o <<k>>
                        \o SubSeq(@, u.inputCursor + 1, Len(@)),
                      !.inputCursor = @ + 1]
  ELSE u

\* screen.key('enter') in EDITING_MODE: currentInput += '\n';
\* inputCursor = currentInput.length
enterKey(u, k) ==
  IF k = "enter" /\ u.activeMode = EDITING_MODE
  THEN [u EXCEPT !.currentInput = Append(@, "\n"),
                 !.inputCursor = Len(u.currentInput) + 1]
  ELSE u

\* variant: the input line is emptied, the cursor stays where it was
clearText(u) == [u EXCEPT !.currentInput = <<>>]

\* currentInput = ''; inputCursor = 0
clearInput(u) == [u EXCEPT !.currentInput = <<>>, !.inputCursor = 0]

\* the key leaves the dashboard: screen.key(['escape', 'q', 'C-c']) falls
\* through to screen.destroy() and process.exit(0)
exits(mode, k) ==
  /\ k \in {"escape", "q", "C-c"}
  /\ ~(k = "escape" /\ mode \in {EDITING_MODE, INPUT_VIEW})

\* the screen.key handlers of e, i, escape, enter and tab: the mode after the key
keyMode(mode, k) ==
  IF k \in {"e", "i"} /\ mode # EDITING_MODE
  THEN IF k = "e" THEN ENTRIES_VIEW ELSE INPUT_VIEW
  ELSE IF k = "escape" /\ mode = EDITING_MODE THEN INPUT_VIEW
  ELSE IF k = "escape" /\ mode = INPUT_VIEW THEN ENTRIES_VIEW
  ELSE IF k = "enter" /\ mode = ENTRIES_VIEW THEN INPUT_VIEW
  ELSE IF k = "enter" /\ mode = INPUT_VIEW THEN EDITING_MODE
  ELSE IF k = "tab" /\ mode # EDITING_MODE
  THEN IF mode = ENTRIES_VIEW THEN INPUT_VIEW ELSE ENTRIES_VIEW
  ELSE mode

\* one key other than Ctrl+S: the keypress listener, then the key's handler.
\* The control characters blessed passes to the listener for Tab, Enter and
\* Escape are left out of the input line: they are inserted at the cursor
\* as a printable character is, and no box shows them.
Key(k) ==
  /\ proc.kind = "dashboard" /\ proc.pc = "run"
  /\ k \in Printable \cup {"enter"} /\ ui.activeMode = EDITING_MODE =>
       Len(ui.currentInput) < MaxInput
  /\ LET typed == [enterKey(keypress(ui, k), k) EXCEPT
                    !.key = k, !.from = ui.activeMode, !.saved = FALSE]
     IN IF exits(ui.activeMode, k)
        THEN /\ exitDashboard
             /\ ui' = [typed EXCEPT !.destroyed = TRUE]
        ELSE /\ ui' = [typed EXCEPT !.activeMode = keyMode(ui.activeMode, k)]
             /\ UNCHANGED <<store, cfg, gists, proc, syncInProgress,
                            lastSyncTimestamp, tasks, entries, now, io, sync,
                            calls, last, pushed, cmdWrote>>
  /\ UNCHANGED <<peer, racing>>

\* Ctrl+S with a non-blank input line outside ENTRIES_VIEW: the entry is
\* saved, the input line cleared, the entries box redrawn and the success
\* message shown
KeySave(ts) ==
  /\ ui.activeMode \in {EDITING_MODE, INPUT_VIEW}
  /\ trim(ui.currentInput) # <<>>
  /\ Len(entries) < MaxTyped
  /\ saveEntry(trim(ui.currentInput), ts)
  /\ ui' = [clearInput(ui) EXCEPT !.entriesBox = entriesContent(entries'),
                                  !.message = "success",
                                  !.key = "C-s", !.from = ui.activeMode, !.saved = TRUE]
  /\ UNCHANGED <<peer, racing>>

\* Ctrl+S up to its first await: the entry is built from the input line and
\* put at the head of the array, and writeFile is pending
KeySaveBegins(ts) ==
  /\ proc.kind = "dashboard" /\ proc.pc = "run"
  /\ ui.activeMode \in {EDITING_MODE, INPUT_VIEW}
  /\ trim(ui.currentInput) # <<>>
  /\ Len(entries) < MaxTyped
  /\ ui.saving < MaxPending
  /\ entries' = <<[timestamp |-> ts, content |-> trim(ui.currentInput)]>> \o entries
  /\ ui' = [ui EXCEPT !.saving = @ + 1, !.key = "C-s", !.from = ui.activeMode,
                      !.saved = FALSE]
  /\ UNCHANGED <<store, cfg, gists, proc, syncInProgress, lastSyncTimestamp,
                 tasks, now, io, sync, calls, last, pushed, cmdWrote>>
  /\ UNCHANGED <<peer, racing>>

\* a pending Ctrl+S goes on once its writeFile is done: the array as it is
\* now has been written, the sync is started if configured, the input line
\* as it is now is cleared, the entries box redrawn, the message shown
KeySaveEnds ==
  /\ proc.kind = "dashboard" /\ proc.pc = "run"
  /\ ui.saving > 0
  /\ store' = Stored(entries)
  /\ cmdWrote' = entries
  /\ SyncIfConfigured(entries)
  /\ proc' = [proc EXCEPT !.wrote = TRUE]
  /\ ui' = [clearInput(ui) EXCEPT !.entriesBox = entriesContent(entries),
                                  !.message = "success", !.saving = @ - 1,
                                  !.key = "C-s", !.from = ui.activeMode, !.saved = TRUE]
  /\ UNCHANGED <<cfg, entries, now, sync>>
  /\ UNCHANGED <<peer, racing>>

\* the success message closes (after 3 s): back to the entries view
MessageDone ==
  /\ proc.kind = "dashboard" /\ proc.pc = "run"
  /\ ui.message = "success"
  /\ ui' = [ui EXCEPT !.activeMode = ENTRIES_VIEW, !.message = "none",
                      !.key = "saved", !.from = ui.activeMode]
  /\ UNCHANGED <<store, cfg, gists, proc, syncInProgress, lastSyncTimestamp,
                 tasks, entries, now, io, sync, calls, last, pushed, cmdWrote,
                 peer, racing>>

\* the process ends once the command returned and no request is pending;
\* the next command starts with fresh module state
Exit ==
  /\ proc.pc = "done"
  /\ tasks = <<>>
  /\ proc' = NoProc
  /\ syncInProgress' = FALSE
  /\ lastSyncTimestamp' = 0
  /\ entries' = <<>>
  /\ calls' = <<>>
  /\ last' = "other"
  /\ io' = <<>>
  /\ pushed' = [pushed EXCEPT !.here = 0]
  /\ UNCHANGED <<store, cfg, gists, tasks, now, sync, cmdWrote>>
  /\ UNCHANGED <<peer, ui, racing>>

\* the user deletes ~/.lg/gist_config.json
ConfigRemoved ==
  /\ cfg.exists
  /\ cfg' = NoConfig
  /\ last' = "other"
  /\ io' = <<>>
  /\ UNCHANGED <<store, gists, proc, syncInProgress, lastSyncTimestamp, tasks,
                 entries, now, sync, calls, pushed, cmdWrote>>
  /\ UNCHANGED <<peer, ui, racing>>

\* time passes
Tick ==
  /\ now < StartNow + MaxTicks * TickMs
  /\ now' = now + TickMs
  /\ last' = "other"
  /\ io' = <<>>
  /\ UNCHANGED <<store, cfg, gists, proc, syncInProgress, lastSyncTimestamp, tasks,
                 entries, sync, calls, pushed, cmdWrote>>
  /\ UNCHANGED <<peer, ui, racing>>

(* ------------------------ two invocations at once --------------------- *)
\* addLogEntry run by two processes at once, each taken in two steps: the
\* read of the storage document with the push onto the parsed array, and
\* the write of that array
RaceFrame ==
  /\ last' = "other"
  /\ io' = <<>>
  /\ UNCHANGED <<cfg, gists, proc, syncInProgress, lastSyncTimestamp, tasks, entries,
                 now, sync, calls, pushed, peer, ui>>

\* the user starts two log commands, for instance from two terminals
RaceStart ==
  /\ proc = NoProc /\ isSetupComplete
  /\ racing.runs = <<>>
  /\ racing' = [runs |-> [i \in 1..2 |-> [pc |-> "read", entries |-> <<>>,
                                           newEntry |-> <<>>]],
                before |-> store.entries, overlapped |-> FALSE]
  /\ UNCHANGED <<store, cmdWrote>>
  /\ RaceFrame

\* fs.readFile, JSON.parse, entries.push(newEntry)
RaceRead(i, content) ==
  /\ i \in 1..Len(racing.runs)
  /\ racing.runs[i].pc = "read"
  /\ LET newEntry == [timestamp |-> toISOString(now), content |-> content] IN
     racing' = [racing EXCEPT
                  !.runs[i] = [pc |-> "write", entries |-> pushEntry(store.entries, newEntry),
                               newEntry |-> newEntry],
                  !.overlapped = @ \/ racing.runs[3 - i].pc = "write"]
  /\ UNCHANGED <<store, cmdWrote>>
  /\ RaceFrame

\* fs.writeFile(STORAGE_FILE, JSON.stringify(entries))
RaceWrite(i) ==
  /\ i \in 1..Len(racing.runs)
  /\ racing.runs[i].pc = "write"
  /\ store' = Stored(racing.runs[i].entries)
  /\ cmdWrote' = racing.runs[i].entries
  /\ racing' = [racing EXCEPT !.runs[i].pc = "done"]
  /\ RaceFrame

(* --------------------------- the other device ------------------------- *)
\* the second device runs the same code against the same gist with the same
\* config; its log and its list --sync are taken step by step (write, then
\* the background push; fetch, then update and write), so that the commands
\* of this device fall between them
PeerFrame ==
  /\ last' = "other"
  /\ io' = <<>>
  /\ UNCHANGED <<store, cfg, proc, syncInProgress, lastSyncTimestamp, tasks, entries,
                 now, sync, calls, pushed, cmdWrote, ui, racing>>

\* addLogEntry on the other device: append, write, start the background task
\* with a copy of the array
PeerLog(ts) ==
  /\ peer.pc = "idle"
  /\ Len(peer.store) < MaxLogged
  /\ LET written == Append(peer.store, [timestamp |-> ts, content |-> "b"]) IN
     peer' = [store |-> written, pc |-> "push", doc |-> written, path |-> "none"]
  /\ UNCHANGED gists
  /\ PeerFrame

\* its background task: reachability check, updateGist with the copy
PeerPush(isOnline, responseOk) ==
  /\ peer.pc = "push"
  /\ gists' = IF isOnline
              THEN updateGist(gists, cfg.gistId, peer.doc, responseOk).gists
              ELSE gists
  /\ peer' = [peer EXCEPT !.pc = "idle", !.doc = <<>>]
  /\ PeerFrame

\* list --sync on the other device, first half of performFullSync: the
\* fetch, and the array it is going to send (local as-is or merged)
PeerFetch(fetchOk) ==
  /\ peer.pc = "idle"
  /\ peer.store # <<>>
  /\ Configured(cfg)
  /\ LET res == performFullSync(peer.store, cfg, gists, TRUE, fetchOk, TRUE) IN
     peer' = [peer EXCEPT !.pc = "update", !.doc = res.doc, !.path = res.path]
  /\ UNCHANGED gists
  /\ PeerFrame

\* second half: updateGist, then list writes the returned array, which is
\* the array sent even when the update failed
PeerUpdate(responseOk) ==
  /\ peer.pc = "update"
  /\ gists' = updateGist(gists, cfg.gistId, peer.doc, responseOk).gists
  /\ peer' = [store |-> peer.doc, pc |-> "idle", doc |-> <<>>, path |-> "none"]
  /\ PeerFrame

(* --------------------------- specifications --------------------------- *)
Setup == \E g \in BOOLEAN, t \in Tokens, f \in BOOLEAN, w \in BOOLEAN : SetupCmd(g, t, f, w)
Log == \E c \in Typed, ts \in Timestamps : LogCmd(c, ts)
Default == \E a \in {"log", "list"}, c \in Typed, ts \in Timestamps : DefaultCmd(a, c, ts)
List == \E s \in BOOLEAN, o \in BOOLEAN, f \in BOOLEAN, u \in BOOLEAN : ListCmd(s, o, f, u)
ListSync == \E o \in BOOLEAN, f \in BOOLEAN, u \in BOOLEAN : ListCmd(TRUE, o, f, u)
Remove ==
  \/ \E c \in BOOLEAN : RemoveCmd("last", Cancel, Cancel, c)
  \/ \E e \in Cancel..MaxStore : RemoveCmd("default", Cancel, e, FALSE)
  \/ \E d \in Dates \cup {Cancel}, e \in Cancel..MaxStore : RemoveCmd("date", d, e, FALSE)
\* the dashboard stamps a new entry with the current time: no older than the
\* entries it shows
SaveNow ==
  \E c \in Typed, ts \in Timestamps :
    /\ \A i \in 1..Len(entries) : entries[i].timestamp <= ts
    /\ DashboardSave(c, ts)
Save == Len(entries) < MaxSaved /\ SaveNow
LogArgs ==
  /\ proc = NoProc
  /\ \E args \in ArgLists, date \in DateOptions :
       \E answer \in IF trim(join(args)) = <<>> THEN Strings ELSE {<<>>} :
         LogArgsCmd(args, date, answer)
Background == \E i \in 1..Len(tasks) : BgLoadConfig(i) \/ BgCheckOnline(i) \/ BgUpdate(i)

Next ==
  \/ Setup
  \/ Log
  \/ LogList
  \/ List
  \/ Remove
  \/ RemoveList
  \/ DashboardOpen
  \/ Save
  \/ DashboardQuit
  \/ Background
  \/ Exit
  \/ ConfigRemoved
  \/ Tick

Spec == Init /\ [][Next]_vars

\* a machine set up with sync, one entry logged and pushed
InitDashboard ==
  /\ store \in {Stored(<<e>>) : e \in [timestamp : Timestamps, content : Typed]}
  /\ cfg = Config("tok", 1)
  /\ gists = <<File(store.entries)>>
  /\ proc = NoProc
  /\ syncInProgress = FALSE
  /\ lastSyncTimestamp = 0
  /\ tasks = <<>>
  /\ entries = <<>>
  /\ now = StartNow
  /\ io = <<>>
  /\ sync = NoSync
  /\ calls = <<>>
  /\ last = "other"
  /\ pushed = [ever |-> 0, here |-> 0]
  /\ cmdWrote = store.entries
  /\ peer = NoPeer
  /\ ui = NoUi
  /\ racing = NoRacing

\* dashboard sessions: saves in a row, the background pushes, the clock
NextDashboard ==
  \/ DashboardOpen
  \/ SaveNow
  \/ DashboardQuit
  \/ Background
  \/ Tick

SpecDashboard == InitDashboard /\ [][NextDashboard]_vars

\* dashboard sessions in which the sync config may be deleted meanwhile
NextSyncing ==
  \/ DashboardOpen
  \/ SaveNow
  \/ DashboardQuit
  \/ Background
  \/ ConfigRemoved
  \/ Tick

\* every await of a background task settles: a pending task takes its next
\* step (the config read, the connectivity check and the PATCH each return
\* or fail)
SpecSyncingFair ==
  /\ InitDashboard
  /\ [][NextSyncing]_vars
  /\ WF_vars(Background)

\* two devices set up against one empty gist
InitDevices ==
  /\ store = Stored(<<>>)
  /\ cfg = Config("tok", 1)
  /\ gists = <<File(<<>>)>>
  /\ proc = NoProc
  /\ syncInProgress = FALSE
  /\ lastSyncTimestamp = 0
  /\ tasks = <<>>
  /\ entries = <<>>
  /\ now = StartNow
  /\ io = <<>>
  /\ sync = NoSync
  /\ calls = <<>>
  /\ last = "other"
  /\ pushed = [ever |-> 0, here |-> 0]
  /\ cmdWrote = <<>>
  /\ peer = NoPeer
  /\ ui = NoUi
  /\ racing = NoRacing

PeerLogs == \E ts \in Timestamps : PeerLog(ts)
PeerPushes == \E o \in BOOLEAN, r \in BOOLEAN : PeerPush(o, r)
PeerFetches == \E f \in BOOLEAN : PeerFetch(f)
PeerUpdates == \E r \in BOOLEAN : PeerUpdate(r)

\* log and list --sync on both devices, in any interleaving
NextDevices ==
  \/ Log
  \/ LogList
  \/ ListSync
  \/ Background
  \/ Exit
  \/ PeerLogs
  \/ PeerPushes
  \/ PeerFetches
  \/ PeerUpdates

SpecDevices == InitDevices /\ [][NextDevices]_vars

\* a full sync of this device and of the other one whose fetch and update
\* both succeeded
FullSyncHere == ListCmd(TRUE, TRUE, TRUE, TRUE) /\ store.entries # <<>>
FullSyncThere == PeerUpdate(TRUE) /\ peer.path = "merged"

\* the two devices under the scheduling of the runtime: a background task
\* that can take its next step takes it, a command that has finished and
\* has no task pending exits, and a full sync that has fetched goes on to
\* its update
SpecDevicesFair ==
  /\ SpecDevices
  /\ WF_vars(Background)
  /\ WF_vars(Exit)
  /\ WF_vars(PeerUpdates)

\* a machine whose storage document is absent or holds one of the given
\* sequences and whose sync configuration is one of the given ones
InitDocs(stores, configs) ==
  /\ store \in stores
  /\ cfg \in configs
  /\ gists = <<File(store.entries)>>
  /\ proc = NoProc
  /\ syncInProgress = FALSE
  /\ lastSyncTimestamp = 0
  /\ tasks = <<>>
  /\ entries = <<>>
  /\ now = StartNow
  /\ io = <<>>
  /\ sync = NoSync
  /\ calls = <<>>
  /\ last = "other"
  /\ pushed = [ever |-> 0, here |-> 0]
  /\ cmdWrote = store.entries
  /\ peer = NoPeer
  /\ ui = NoUi
  /\ racing = NoRacing

InitMachine(stored, configs) ==
  InitDocs({NoStore} \cup {Stored(e) : e \in stored}, configs)

\* a machine before or after setup, with or without sync, and its commands
\* on the storage document
InitLocal ==
  InitMachine(SeqsUpTo([timestamp : Timestamps, content : Typed], MaxLen),
              {NoConfig, Config("tok", 1)})

NextLocal ==
  \/ Setup
  \/ Default
  \/ Log
  \/ LogList
  \/ List
  \/ Remove
  \/ RemoveList
  \/ DashboardOpen
  \/ DashboardQuit
  \/ Background
  \/ Exit

SpecLocal == InitLocal /\ [][NextLocal]_vars

\* the list command over every store of a machine without sync
InitList ==
  InitMachine(SeqsUpTo([timestamp : 1..MaxListTs, content : Typed], MaxListed), {NoConfig})

ListShown ==
  \E reverse \in BOOLEAN, limit \in Limits :
    ListOptsCmd(reverse, limit, FALSE, FALSE, FALSE, FALSE)

NextList ==
  \/ ListShown
  \/ Exit

SpecList == InitList /\ [][NextList]_vars

\* two log commands at once on every set-up machine without sync
InitRace == InitMachine(SeqsUpTo(LogEntry, MaxLen), {NoConfig})

RaceReads == \E i \in 1..2, c \in Contents : RaceRead(i, c)
RaceWrites == \E i \in 1..2 : RaceWrite(i)

NextRace ==
  \/ RaceStart
  \/ RaceReads
  \/ RaceWrites

SpecRace == InitRace /\ [][NextRace]_vars

\* the log command over every argument list, on every storage document of
\* a machine without sync
InitLog ==
  InitMachine(SeqsUpTo([timestamp : Timestamps, content : {<<"x">>}], MaxLen), {NoConfig})

NextLog ==
  \/ LogArgs
  \/ LogList

SpecLog == InitLog /\ [][NextLog]_vars

\* the commands that read the storage document, on a well-formed and on a
\* malformed one, with and without sync
InitParse ==
  InitDocs({Malformed} \cup {Stored(e) : e \in SeqsUpTo([timestamp : Timestamps, content : Typed], 1)},
           {NoConfig, Config("tok", 1)})

NextParse ==
  \/ Default
  \/ Log
  \/ LogList
  \/ List
  \/ Remove
  \/ RemoveList
  \/ Background
  \/ Exit

SpecParse == InitParse /\ [][NextParse]_vars

\* remove on every store of up to MaxListed entries, equal timestamps and
\* several timestamps on one day included
InitRemove ==
  InitMachine(SeqsUpTo([timestamp : 1..MaxListTs, content : Contents], MaxListed), {NoConfig})

NextRemove ==
  \/ Remove
  \/ RemoveList
  \/ Exit

SpecRemove == InitRemove /\ [][NextRemove]_vars

\* a device set up with sync whose storage document and gist hold the same
\* entries; entries are taken out by remove and nothing is logged
InitForget ==
  InitDocs({Stored(e) : e \in SeqsUpTo([timestamp : Timestamps, content : Typed], MaxLen) \ {<<>>}},
           {Config("tok", 1)})

NextForget ==
  \/ Remove
  \/ RemoveList
  \/ Background
  \/ Exit
  \/ ListSync

SpecForget == InitForget /\ [][NextForget]_vars

\* the dashboard at the keyboard, on a machine without sync
InitScreen ==
  InitMachine(SeqsUpTo([timestamp : Timestamps, content : {<<"#", "e">>}], 1), {NoConfig})

Keyboard == \E k \in Keys : Key(k)
KeySaveNow ==
  \E ts \in Timestamps :
    /\ \A i \in 1..Len(entries) : entries[i].timestamp <= ts
    /\ KeySave(ts)

NextScreen ==
  \/ ScreenOpen
  \/ Keyboard
  \/ KeySaveNow
  \/ MessageDone

SpecScreen == InitScreen /\ [][NextScreen]_vars

\* the dashboard at the keyboard with the cursor keys, Ctrl+S taking its
\* time to write
EditKeys == {"e", " ", "enter", "escape", "q", "backspace"} \cup CursorKeys
CursorKeyboard == \E k \in EditKeys : Key(k)
KeySaveStarted ==
  \E ts \in Timestamps :
    /\ \A i \in 1..Len(entries) : entries[i].timestamp <= ts
    /\ KeySaveBegins(ts)

NextCursor ==
  \/ ScreenOpen
  \/ CursorKeyboard
  \/ KeySaveStarted
  \/ KeySaveEnds
  \/ MessageDone

SpecCursor == InitScreen /\ [][NextCursor]_vars

\* full sync and setup sync over every pair of local and remote documents
NextMerge ==
  \/ Setup
  \/ ListSync
  \/ Exit

SpecMerge == InitMerge /\ [][NextMerge]_vars

(* ------------------------------- claims ------------------------------- *)
Range(s) == {s[i] : i \in 1..Len(s)}
Max(a, b) == IF a >= b THEN a ELSE b
UniqueTimestamps(s) == \A i, j \in 1..Len(s) : s[i].timestamp = s[j].timestamp => i = j
CountOf(s, e) == Cardinality({i \in 1..Len(s) : s[i] = e})
SameEntries(s, t) == \A e \in Range(s) \cup Range(t) : CountOf(s, e) = CountOf(t, e)
IsNewestFirst(s) ==
  \A i, j \in 1..Len(s) : i < j => getTime(s[i].timestamp) >= getTime(s[j].timestamp)
WithTimestamp(s, ts) == SelectSeq(s, LAMBDA e : e.timestamp = ts)
MergedFullSync == sync.op = "full" /\ sync.path = "merged"

\* C1: on the merge path of performFullSync (remote fetched), every timestamp
\* of the local input and every timestamp of the remote input is a timestamp
\* of the returned sequence.
C1_UnionKeepsTimestamps ==
  MergedFullSync =>
    TimestampsOf(sync.local) \cup TimestampsOf(sync.before.entries)
      \subseteq TimestampsOf(sync.entries)

C1_Witness ==
  /\ MergedFullSync
  /\ TimestampsOf(sync.local) \ TimestampsOf(sync.before.entries) # {}
  /\ TimestampsOf(sync.before.entries) \ TimestampsOf(sync.local) # {}

\* C2 as stated: the union merge result is at least as long as the longer of
\* the local and the remote sequence, timestamps repeated or not.
C2_Original ==
  MergedFullSync =>
    Len(sync.entries) >= Max(Len(sync.local), Len(sync.before.entries))

\* C2 amended: the union merge result is at least as long as the local
\* sequence, and at least as long as the remote sequence when no timestamp
\* is repeated within the remote sequence.
C2_LengthOfMerge ==
  MergedFullSync =>
    /\ Len(sync.entries) >= Len(sync.local)
    /\ UniqueTimestamps(sync.before.entries) =>
         Len(sync.entries) >= Len(sync.before.entries)

C2_Witness ==
  /\ MergedFullSync
  /\ UniqueTimestamps(sync.before.entries)
  /\ ~UniqueTimestamps(sync.local)
  /\ Len(sync.before.entries) = 2
  /\ Len(sync.entries) > Len(sync.local)

\* C3 as stated: whatever the outcome of the reachability check, the fetch
\* and the update of a performFullSync, an entry only the remote document
\* held before the call is in the remote document after it, and an entry only
\* the local side held is in the returned sequence.
C3_Original ==
  sync.op = "full" =>
    /\ \A e \in Range(sync.before.entries) :
         e.timestamp \notin TimestampsOf(sync.local) => e \in Range(RemoteOf.entries)
    /\ \A e \in Range(sync.local) :
         e.timestamp \notin TimestampsOf(sync.before.entries) => e \in Range(sync.entries)

\* C4: when a local and a remote entry carry the same timestamp, the merge
\* of performFullSync and of initializeGistSync returns the local entries of
\* that timestamp and none of the remote ones, and the document pushed, and
\* on success held by the remote, has the local content for that timestamp.
C4_TieKeepsLocal ==
  sync.op \in {"full", "init"} /\ sync.path = "merged" =>
    \A ts \in TimestampsOf(sync.local) \cap TimestampsOf(sync.before.entries) :
      /\ WithTimestamp(sync.entries, ts) = WithTimestamp(sync.local, ts)
      /\ sync.sent /\ WithTimestamp(sync.doc, ts) = WithTimestamp(sync.local, ts)
      /\ sync.ok => WithTimestamp(RemoteOf.entries, ts) = WithTimestamp(sync.local, ts)

TieWithOtherContent ==
  \E l \in Range(sync.local), r \in Range(sync.before.entries) :
    l.timestamp = r.timestamp /\ l.content # r.content

C4_Witness ==
  /\ sync.op = "init" /\ sync.path = "merged" /\ sync.ok
  /\ TieWithOtherContent

C4_WitnessFullSync ==
  /\ MergedFullSync /\ sync.ok
  /\ TieWithOtherContent

\* C5 as stated: a full sync run after a successful full sync whose result
\* was saved, with the remote and the store unchanged in between, returns the
\* same entries in the same order and leaves the remote document as it was.
C5_Original ==
  sync.op = "full" /\ sync.after # "none" =>
    /\ sync.entries = sync.local
    /\ RemoteOf = sync.before

\* C5 amended: such a second full sync returns the same entries and leaves
\* the remote holding the same entries; the order of both is also the same
\* when the first sync took the merge path (it left them sorted), while after
\* a first sync that pushed local as-is the second may reorder them.
C5_Idempotent ==
  sync.op = "full" /\ sync.after # "none" =>
    /\ SameEntries(sync.entries, sync.local)
    /\ RemoteOf.hasFile /\ SameEntries(RemoteOf.entries, sync.before.entries)
    /\ sync.after = "merged" => sync.entries = sync.local /\ RemoteOf = sync.before

C5_Witness ==
  /\ sync.op = "full" /\ sync.after = "merged" /\ sync.path = "merged" /\ sync.ok
  /\ Len(sync.entries) >= 3

\* C6: on the merge path of performFullSync with a successful push, the
\* returned sequence is sorted newest first and the remote document equals it.
C6_SortedAndPushed ==
  MergedFullSync /\ sync.ok =>
    /\ IsNewestFirst(sync.entries)
    /\ RemoteOf = File(sync.entries)

C6_Witness ==
  /\ MergedFullSync /\ sync.ok
  /\ sync.entries # addRemoteEntries(sync.local, sync.before.entries)
  /\ Cardinality(TimestampsOf(sync.entries)) >= 2

Settled(c) == c.fin /\ ~c.blocked
Remote(ops) == {ops[i] : i \in 1..Len(ops)} \cap {"fetch", "update"}

\* C7 as stated: with sync configured and the network reachable, two calls of
\* syncWithGistInBackground made back-to-back result in exactly one updateGist
\* call, and no call made less than 5 s after the last successful sync
\* issues one.
C7_Original ==
  /\ Len(calls) = 2 /\ Settled(calls[1]) /\ Settled(calls[2]) =>
       calls[1].upd + calls[2].upd = 1
  /\ \A i \in 1..Len(calls) : calls[i].window => calls[i].upd = 0

\* C7 amended: within one process two back-to-back calls result in at most
\* one updateGist call: exactly one when the first is made with no background
\* task in flight and not within 5 s after a successful push of that process,
\* none otherwise; and no call made less than 5 s after a successful push of
\* the same process starts a task or issues an updateGist.
C7_Debounce ==
  /\ Len(calls) = 2 => ~(calls[1].started /\ calls[2].started)
  /\ Len(calls) = 2 /\ Settled(calls[1]) /\ Settled(calls[2]) =>
       /\ calls[1].upd + calls[2].upd <= 1
       /\ calls[1].upd + calls[2].upd = 1 <=> ~calls[1].inFlight /\ ~calls[1].recent
  /\ \A i \in 1..Len(calls) : calls[i].recent => ~calls[i].started /\ calls[i].upd = 0

C7_Witness ==
  /\ Len(calls) = 2 /\ Settled(calls[1]) /\ Settled(calls[2])
  /\ calls[1].upd = 1
  /\ ~calls[2].started

\* a call inside the window of the same process, skipped
C7_WitnessRecent == \E i \in 1..Len(calls) : calls[i].recent /\ ~calls[i].inFlight

\* C7, first half alone: two back-to-back calls, exactly one updateGist call
C7_OriginalPair ==
  Len(calls) = 2 /\ Settled(calls[1]) /\ Settled(calls[2]) =>
    calls[1].upd + calls[2].upd = 1

\* C8: within one process at most one background sync task is in flight; a
\* call made while a task has not finished starts none and issues no request.
C8_OneTaskInFlight ==
  /\ Len(tasks) <= 1
  /\ \A i \in 1..Len(calls) : calls[i].inFlight => ~calls[i].started /\ calls[i].upd = 0
  /\ last = "call" /\ calls[Len(calls)].inFlight => io = <<>>

C8_Witness ==
  /\ last = "call" /\ calls[Len(calls)].inFlight
  /\ Len(tasks) = 1 /\ tasks[1].pc = "update"

\* C9: syncWithGistInBackground returns before any request of the sync is
\* issued (the task it started has not yet read the config), no outcome of a
\* background task (unconfigured, offline, updateGist failing) raises an error
\* into the command, and the storage document stays as the command wrote it.
C9_NeverBlocksOrFails ==
  /\ last = "call" => /\ io = <<>>
              /\ \A i \in 1..Len(tasks) :
                   tasks[i].tag = Len(calls) => tasks[i].pc = "loadConfig"
  /\ ~proc.failed
  /\ store.entries = cmdWrote

\* a background push that failed, in a process that goes on
C9_Witness ==
  /\ calls # <<>> /\ calls[Len(calls)].fin /\ calls[Len(calls)].upd = 1
  /\ pushed.here = 0
  /\ proc.kind = "dashboard" /\ proc.pc = "run"

C9_WitnessBlocked == calls # <<>> /\ calls[Len(calls)].blocked /\ ~Configured(cfg)

\* C10: when the config is absent or lacks token or gistId, or the
\* reachability check fails, performFullSync and the background sync issue no
\* fetch and no update, performFullSync returns the local entries unchanged,
\* and list (--sync) leaves the storage document and the remote as they were.
C10_NoSyncWhenOffOrUnconfigured ==
  \* list --sync whose reachability check failed
  /\ sync.op = "full" /\ sync.path \in {"unconfigured", "offline"} =>
       /\ sync.entries = sync.local
       /\ store.entries = sync.local
       /\ Remote(sync.io) = {}
       /\ Configured(cfg) => RemoteOf = sync.before
  \* a command that found the sync unconfigured: no full sync, no request
  /\ last = "unconfigured" =>
       /\ io = <<>>
       /\ sync.op # "full"
       /\ store.entries = cmdWrote
  \* a background task that found the sync unconfigured or the network down
  /\ \A i \in 1..Len(calls) : calls[i].blocked => calls[i].upd = 0
  /\ last = "other" /\ calls # <<>> /\ calls[Len(calls)].blocked => Remote(io) = {}
  \* performFullSync itself, on the documents of this state
  /\ \A c \in {NoConfig, Config("tok", 0), Config("", 1)}, o, f, u \in BOOLEAN :
       LET res == performFullSync(store.entries, c, gists, o, f, u) IN
       res.entries = store.entries /\ res.gists = gists /\ Remote(res.io) = {}
  /\ \A f, u \in BOOLEAN :
       LET res == performFullSync(store.entries, cfg, gists, FALSE, f, u) IN
       res.entries = store.entries /\ res.gists = gists /\ Remote(res.io) = {}

C10_Witness ==
  /\ sync.op = "full" /\ sync.path = "offline"
  /\ Len(sync.local) >= 2
  /\ proc.kind = "list"

\* the remote of a setup sync was fetched: an id was saved, the request
\* succeeded and the gist holds the storage file
Fetchable == sync.saved # 0 /\ sync.fetchOk /\ sync.before.hasFile

SetupSynced == sync.op = "init" /\ ~sync.thrown

\* C11: initializeGistSync follows the case analysis: no saved id: create a
\* gist from the local entries, return local; remote fetched: both non-empty:
\* return and push local plus remote-not-in-local, newest first; local empty:
\* return the remote entries, no create or update; remote empty: push local,
\* return it; both empty: no create or update; every success saves
\* {token, gistId}.
C11_InitCaseAnalysis ==
  sync.op = "init" =>
    LET l == sync.local
        r == sync.before.entries
        writes == Range(sync.io) \cap {"create", "update"}
    IN
    /\ sync.saved = 0 =>
         /\ sync.path = "created" /\ sync.entries = l
         /\ sync.sent /\ sync.doc = l /\ writes = {"create"}
         /\ ~sync.thrown => RemoteOf = File(l)
    /\ Fetchable /\ l # <<>> /\ r # <<>> =>
         /\ sync.path = "merged"
         /\ SameEntries(sync.entries,
              l \o SelectSeq(r, LAMBDA e : e.timestamp \notin TimestampsOf(l)))
         /\ IsNewestFirst(sync.entries)
         /\ sync.sent /\ sync.doc = sync.entries /\ writes = {"update"}
         /\ ~sync.thrown => RemoteOf = File(sync.entries)
    /\ Fetchable /\ l = <<>> /\ r # <<>> =>
         /\ sync.path = "adopted" /\ sync.entries = r
         /\ ~sync.sent /\ writes = {} /\ ~sync.thrown
         /\ RemoteOf = sync.before
    /\ Fetchable /\ l # <<>> /\ r = <<>> =>
         /\ sync.path = "pushed" /\ sync.entries = l
         /\ sync.sent /\ sync.doc = l /\ writes = {"update"}
         /\ ~sync.thrown => RemoteOf = File(l)
    /\ Fetchable /\ l = <<>> /\ r = <<>> =>
         /\ sync.path = "empty" /\ sync.entries = <<>>
         /\ ~sync.sent /\ writes = {} /\ ~sync.thrown
         /\ RemoteOf = sync.before
    /\ ~sync.thrown =>
         /\ Configured(cfg) /\ cfg.token = "tok"
         /\ sync.path # "created" => cfg.gistId = sync.saved

\* a setup that merged two non-empty sides holding different timestamps
C11_Witness ==
  /\ SetupSynced /\ sync.path = "merged"
  /\ TimestampsOf(sync.before.entries) \ TimestampsOf(sync.local) # {}
  /\ TimestampsOf(sync.local) \ TimestampsOf(sync.before.entries) # {}

C11_WitnessCreated == SetupSynced /\ sync.path = "created" /\ sync.local # <<>>
C11_WitnessAdopted == SetupSynced /\ sync.path = "adopted"
C11_WitnessPushed == SetupSynced /\ sync.path = "pushed"
C11_WitnessEmpty == SetupSynced /\ sync.path = "empty"

\* C12 as stated: after a successful setup sync against a gist that holds
\* entries, every remote entry is in the storage document, which equals the
\* entries initializeGistSync returned.
C12_Original ==
  SetupSynced /\ Fetchable /\ sync.before.entries # <<>> =>
    /\ TimestampsOf(sync.before.entries) \subseteq TimestampsOf(store.entries)
    /\ store.entries = sync.entries

\* the process is at rest after a change of the storage document, with sync
\* configured and every network check and push of the process successful
AtRestAfterChange ==
  /\ proc.wrote /\ ~proc.cut
  /\ tasks = <<>>
  /\ Configured(cfg)
  /\ proc.pc = "done" \/ (proc.kind = "dashboard" /\ proc.pc = "run")

\* C13 as stated: with sync configured and the network reachable, after
\* entries are added (log, dashboard save) or removed, once the background
\* work of the process is over the remote document equals the storage
\* document.
C13_Original == AtRestAfterChange => RemoteOf = File(store.entries)

\* C14 as stated: with sync configured, list --sync runs performFullSync
\* and, the network being reachable, writes its result to the storage
\* document, for every content of the store, the empty one included. (Every
\* list of SpecMerge is a list --sync.)
C14_Original ==
  proc.kind = "list" /\ store.exists /\ Configured(cfg) =>
    /\ sync.op = "full"
    /\ sync.path # "offline" => store.entries = sync.entries /\ sync.wrote

\* the entries held by either store or by the remote document
Everywhere == Range(store.entries) \cup Range(peer.store) \cup Range(RemoteOf.entries)

\* a list --sync of either device whose reachability check, fetch or update
\* failed
FailedSync ==
  \/ \E o, f, u \in BOOLEAN : ListCmd(TRUE, o, f, u) /\ ~(o /\ f /\ u)
  \/ PeerFetch(FALSE)
  \/ PeerUpdate(FALSE)

SameTimestamps ==
  /\ TimestampsOf(store.entries) = TimestampsOf(peer.store)
  /\ TimestampsOf(peer.store) = TimestampsOf(RemoteOf.entries)

\* a full sync of this device that falls between the fetch and the update
\* of a full sync of the other device
Overlap == peer.pc = "update" /\ \E o, f, u \in BOOLEAN : ListCmd(TRUE, o, f, u)

IsTrimOf(c, s) ==
  /\ c = <<>> \/ (c[1] # " " /\ c[Len(c)] # " ")
  /\ \E i \in 0..Len(s) :
       /\ i + Len(c) <= Len(s)
       /\ SubSeq(s, i + 1, i + Len(c)) = c
       /\ \A k \in (1..i) \cup ((i + Len(c) + 1)..Len(s)) : s[k] = " "

\* a log command with arguments that give a content, on a set-up machine
LogsContent ==
  /\ proc.kind = "log"
  /\ store.exists
  /\ trim(join(proc.args)) # <<>>

\* the store holds the entries before the command followed by one entry
\* with this timestamp and the joined, trimmed arguments
Appended(ts) ==
  /\ Len(store.entries) = Len(proc.before) + 1
  /\ SubSeq(store.entries, 1, Len(proc.before)) = proc.before
  /\ store.entries[Len(store.entries)].timestamp = ts
  /\ IsTrimOf(store.entries[Len(store.entries)].content, join(proc.args))

\* C16 as stated: log with non-empty content on a store holding S leaves
\* the store holding S followed by one new entry {timestamp: now, content:
\* the arguments joined by single spaces and trimmed}.
C16_Original == LogsContent => Appended(toISOString(now))

\* C16 amended: the timestamp is now without --date and the first instant
\* of the day given by --date otherwise; with a --date that is no date the
\* command fails and the store is left as it was.
C16_LogAppends ==
  LogsContent =>
    IF proc.date = InvalidDate THEN store.entries = proc.before /\ proc.failed
    ELSE Appended(IF proc.date = NoDate THEN toISOString(now) ELSE 2 * proc.date)

\* a log of two arguments that appended, to a store holding entries, a
\* content with an inner space and the timestamp of the current time
C16_Witness ==
  /\ LogsContent /\ proc.wrote
  /\ Len(proc.args) = 2 /\ join(proc.args) # trim(join(proc.args))
  /\ Len(proc.before) >= 1
  /\ store.entries[Len(store.entries)].content = <<"x", " ", "x">>
  /\ store.entries[Len(store.entries)].timestamp = toISOString(now)

\* the commands that need lg set up
Commands == {"log", "list", "remove", "dashboard", "default"}

\* C17: while the storage document is missing, log, list, remove, dashboard
\* and the default command report the error and return: they have written
\* nothing, loaded no entries and started no background or full sync.
C17_NotSetUp ==
  (proc.kind \in Commands /\ ~store.exists) =>
    /\ proc.error = "notSetUp" /\ proc.pc = "done"
    /\ ~proc.wrote /\ cmdWrote = <<>> /\ entries = <<>>
    /\ tasks = <<>> /\ calls = <<>> /\ ~syncInProgress
    /\ sync.op = "none" /\ io = <<>>

\* the default command refused on a machine that has a sync configuration
\* but no storage document
C17_Witness ==
  /\ ~store.exists /\ Configured(cfg)
  /\ proc.kind = "default" /\ proc.error = "notSetUp"

RemovedLast == proc.kind = "remove" /\ proc.wrote /\ proc.args = <<"--last">>

\* C19: a confirmed remove --last on a non-empty store removes exactly one
\* entry, one whose timestamp is the greatest wherever it stood; every
\* other entry remains.
C19_RemoveLast ==
  RemovedLast =>
    \E i \in 1..Len(proc.before) :
      /\ \A j \in 1..Len(proc.before) :
           proc.before[j].timestamp <= proc.before[i].timestamp
      /\ SameEntries(store.entries, RemoveAt(proc.before, i))

\* remove --last on a store of two entries whose newest entry was not the
\* first one: the older entry is left
C19_Witness ==
  /\ RemovedLast
  /\ Len(proc.before) = 2
  /\ proc.before[1].timestamp < proc.before[2].timestamp
  /\ store.entries = <<proc.before[1]>>

\* the entries of the days shown, one after the other
RECURSIVE Flatten(_)
Flatten(days) == IF days = <<>> THEN <<>> ELSE Head(days).entries \o Flatten(Tail(days))

IsOldestFirst(s) == \A i, j \in 1..Len(s) : i < j => s[i].timestamp <= s[j].timestamp

\* a list in the default day order, without limit, that showed its entries
ListedAll ==
  /\ proc.kind = "list" /\ proc.out # <<>>
  /\ ~proc.reverse /\ proc.limit = NoLimit

\* C20: grouping the entries by the date part of their timestamps, ordering
\* each group ascending by timestamp and concatenating the groups in
\* ascending date order yields the whole sequence sorted ascending by
\* timestamp, and every entry lies in exactly one group.
C20_GroupedIsSorted ==
  ListedAll =>
    /\ IsOldestFirst(Flatten(proc.out))
    /\ SameEntries(Flatten(proc.out), store.entries)
    /\ \A i \in 1..Len(proc.out) :
         /\ \A e \in Range(proc.out[i].entries) : getDatePart(e.timestamp) = proc.out[i].date
         /\ \A j \in 1..Len(proc.out) : proc.out[i].date = proc.out[j].date => i = j

\* a list of three entries stored out of order, two of them of one day
C20_Witness ==
  /\ ListedAll
  /\ Len(store.entries) = 3 /\ ~IsOldestFirst(store.entries)
  /\ Len(proc.out) = 2
  /\ \E i \in 1..2 : /\ Len(proc.out[i].entries) = 2
                     /\ proc.out[i].entries[1].timestamp < proc.out[i].entries[2].timestamp

\* a list that showed entries
Listed == proc.kind = "list" /\ proc.out # <<>>

\* the days of the store in the chosen order, each with all of its entries
AllDays == shownDays(store.entries, proc.reverse, NoLimit)

\* the string is the decimal notation of a positive integer
IsPositiveInteger(str) ==
  /\ str # <<>>
  /\ \A i \in 1..Len(str) : str[i] \in Digits
  /\ decimal(str) > 0

\* C21 as stated: list --limit N with N > 0 shows exactly the first
\* min(N, number of days) days of the chosen order, each with all of its
\* entries; a limit that is not a positive integer truncates nothing.
C21_Original ==
  Listed =>
    IF IsPositiveInteger(proc.limit)
    THEN LET n == decimal(proc.limit) IN
         proc.out = SubSeq(AllDays, 1, IF n < Len(AllDays) THEN n ELSE Len(AllDays))
    ELSE proc.out = AllDays

\* C21 for limits that are integers in decimal notation or hold no digit
C21_CanonicalLimits ==
  (Listed /\ (IsPositiveInteger(proc.limit) \/ isNaN(parseInt(proc.limit))
                \/ parseInt(proc.limit).value <= 0)) =>
    IF IsPositiveInteger(proc.limit)
    THEN LET n == decimal(proc.limit) IN
         proc.out = SubSeq(AllDays, 1, IF n < Len(AllDays) THEN n ELSE Len(AllDays))
    ELSE proc.out = AllDays

\* C22: list shows the days in ascending date order by default and in
\* descending order with --reverse; the entries within each day are shown
\* ascending by timestamp whichever day order is chosen.
C22_DayOrder ==
  Listed =>
    /\ \A i, j \in 1..Len(proc.out) :
         i < j => IF proc.reverse THEN proc.out[i].date > proc.out[j].date
                  ELSE proc.out[i].date < proc.out[j].date
    /\ \A i \in 1..Len(proc.out) : IsOldestFirst(proc.out[i].entries)

\* a list --reverse of entries stored newest first: the later day comes
\* first, and a day of two entries shows the older one first
C22_Witness ==
  /\ Listed /\ proc.reverse /\ proc.limit = NoLimit
  /\ Len(store.entries) = 3
  /\ \A i \in 1..2 : store.entries[i].timestamp > store.entries[i + 1].timestamp
  /\ Len(proc.out) = 2 /\ proc.out[1].date > proc.out[2].date
  /\ \E i \in 1..2 : /\ Len(proc.out[i].entries) = 2
                     /\ proc.out[i].entries[1].timestamp < proc.out[i].entries[2].timestamp

\* both invocations have written
BothDone ==
  /\ Len(racing.runs) = 2
  /\ \A i \in 1..2 : racing.runs[i].pc = "done"

\* C23: two log invocations are not excluded from each other: when both
\* read the storage document before either writes it, the final store holds
\* the entries that were there followed by only one of the two new entries;
\* in every interleaving the entries that were there are kept, in place.
C23_LostUpdate ==
  BothDone =>
    /\ Len(store.entries) >= Len(racing.before)
    /\ SubSeq(store.entries, 1, Len(racing.before)) = racing.before
    /\ racing.overlapped =>
         \E i \in 1..2 : store.entries = Append(racing.before, racing.runs[i].newEntry)
    /\ ~racing.overlapped =>
         \E i \in 1..2 : store.entries = racing.before \o
                           <<racing.runs[i].newEntry, racing.runs[3 - i].newEntry>>

\* two different entries logged at once onto a store that held entries,
\* both read before either write: the first one written is gone
C23_Witness ==
  /\ BothDone /\ racing.overlapped
  /\ racing.before # <<>>
  /\ racing.runs[1].newEntry # racing.runs[2].newEntry
  /\ store.entries = Append(racing.before, racing.runs[2].newEntry)

\* C24: while the dashboard is in EDITING_MODE, e, i and Tab leave the mode as
\* it is, a printable character only edits the input line (the dashboard
\* stays open, in EDITING_MODE), and the mode is left only by Escape (to
\* INPUT_VIEW) and by a successful Ctrl+S (to ENTRIES_VIEW).
C24_Original ==
  (ui.key # "none" /\ ui.from = EDITING_MODE) =>
    /\ ui.key \in {"e", "i", "tab"} => ui.activeMode = EDITING_MODE
    /\ ui.key \in Printable => ~ui.destroyed /\ ui.activeMode = EDITING_MODE
    /\ ui.activeMode # EDITING_MODE =>
         \/ ui.key = "escape" /\ ui.activeMode = INPUT_VIEW
         \/ ui.key = "saved" /\ ui.activeMode = ENTRIES_VIEW

\* C25: after a successful Ctrl+S the entries box, the tags box and the
\* calendar show the in-memory entries, new entry included, and the storage
\* document holds those entries.
C25_Original ==
  ui.saved =>
    /\ ui.entriesBox = entriesContent(entries)
    /\ ui.tagsBox = extractTags(entries)
    /\ ui.calendarBox = generateCalendar(entries)
    /\ store.entries = entries

\* C26: on a storage document that cannot be parsed, log, list and remove
\* fail with the parse error (the process exits non-zero) and the document
\* is left as it was.
C26_MalformedFails ==
  [][store = Malformed =>
       /\ store' = Malformed
       /\ proc'.kind \in {"log", "list", "remove", "default"} =>
            proc'.failed /\ proc'.error = "SyntaxError" /\ ~proc'.wrote]_vars

C26_Witness ==
  /\ proc.kind = "remove" /\ proc.error = "SyntaxError"
  /\ store = Malformed
  /\ Configured(cfg)

\* C27: lastSyncTimestamp is set only by a step whose updateGist succeeded,
\* to the time of that step; a background sync that ends without a
\* successful update (no config, offline, update failed) leaves it as it
\* was, and the call made next is not skipped.
C27_StampAfterSuccess ==
  [][proc' # NoProc =>
       /\ lastSyncTimestamp' # lastSyncTimestamp =>
            /\ lastSyncTimestamp' = now
            /\ pushed'.here = now
            /\ \E k \in 1..Len(io') : io'[k] = "update"
       /\ (Len(tasks') < Len(tasks) /\ pushed'.here # now) =>
            /\ lastSyncTimestamp' = lastSyncTimestamp
            /\ ~shouldSkip']_vars

\* a push failed or was cut off in this process, none succeeded, and the
\* next call has started its own sync
C27_Witness ==
  /\ proc.cut /\ pushed.here = 0
  /\ syncInProgress /\ tasks # <<>>
  /\ lastSyncTimestamp = 0

\* C28: a background sync whose updateGist succeeds leaves in the gist the
\* entries as they were when syncWithGistInBackground was called, whatever
\* the caller has done to its array since.
C28_PushesSnapshot ==
  [][(/\ tasks # <<>> /\ tasks[1].pc = "update"
      /\ Len(tasks') < Len(tasks)
      /\ (gists' # gists \/ pushed'.here = now)) =>
       RemoteDoc(tasks[1].config, gists') = File(tasks[1].called)]_vars

\* the dashboard saved again while the push of the first save was on its
\* way: the gist holds the entries of the first save
C28_Witness ==
  /\ proc.kind = "dashboard" /\ tasks = <<>> /\ io = <<"update">>
  /\ pushed.here = now
  /\ Len(entries) = Len(RemoteOf.entries) + 1
  /\ RemoteOf.entries = Tail(entries)

\* C29: performFullSync returns normally whatever fails (no config, not
\* online, fetch, update), and what it returns holds every entry of the
\* local entries it was given.
C29_FullSyncReturns ==
  sync.op = "full" =>
    /\ ~sync.thrown
    /\ \A i \in 1..Len(sync.local) :
         \E j \in 1..Len(sync.entries) : sync.entries[j] = sync.local[i]

\* the update of the merged entries failed
C29_Witness ==
  /\ sync.op = "full" /\ sync.path = "merged"
  /\ sync.sent /\ ~sync.ok
  /\ Len(sync.local) > 0 /\ Len(sync.entries) > Len(sync.local)

\* C30: removing one selected entry leaves the stored entries whose
\* timestamp differs from the selected entry's, all of them and in their
\* stored order; every entry with that timestamp is gone.
C30_RemoveEntry ==
  [][(proc = NoProc /\ proc'.kind = "remove" /\ proc'.wrote /\ proc'.picked > 0) =>
       /\ \E i \in 1..Len(store.entries) : store.entries[i].timestamp = proc'.picked
       /\ store'.entries =
            SelectSeq(store.entries, LAMBDA e : e.timestamp # proc'.picked)]_vars

\* an entry was picked on a day that held another timestamp too: the one
\* entry left is of that day
C30_Witness ==
  /\ proc.kind = "remove" /\ proc.wrote /\ proc.picked > 0
  /\ Len(store.entries) = 1
  /\ store.entries[1].timestamp # proc.picked
  /\ getDatePart(store.entries[1].timestamp) = getDatePart(proc.picked)

\* C31: "All entries for this day" leaves the stored entries of every other
\* day, all of them and in their stored order, and none of the selected day;
\* without options the selected day is the latest day of the store.
C31_RemoveAllForDay ==
  [][(proc = NoProc /\ proc'.kind = "remove" /\ proc'.wrote /\ proc'.date # NoDate) =>
       /\ proc'.date \in DatesOf(store.entries)
       /\ store'.entries =
            SelectSeq(store.entries, LAMBDA e : getDatePart(e.timestamp) # proc'.date)
       /\ proc'.args = <<>> =>
            \A d \in DatesOf(store.entries) : d <= proc'.date]_vars

\* remove without options, the whole last day taken: the two entries of
\* earlier days are left, the newer one still first
C31_Witness ==
  /\ proc.kind = "remove" /\ proc.wrote /\ proc.date # NoDate /\ proc.args = <<>>
  /\ Len(store.entries) = 2
  /\ store.entries[1].timestamp > store.entries[2].timestamp
  /\ getDatePart(store.entries[1].timestamp) < proc.date

\* C32: a remove that ends in Cancel (at the date or the entry prompt) or in
\* a declined confirmation of --last, and a remove on an empty store, writes
\* nothing: the storage document is as it was.
C32_CancelWritesNothing ==
  [][(/\ proc = NoProc /\ proc'.kind = "remove"
      /\ (proc'.picked = Cancel \/ (isSetupComplete /\ store.entries = <<>>))) =>
       /\ store' = store
       /\ ~proc'.wrote /\ proc'.pc = "done"]_vars

\* a remove on a full store ended in Cancel or in a declined confirmation
C32_Witness ==
  /\ proc.kind = "remove" /\ proc.picked = Cancel /\ proc.pc = "done"
  /\ Len(store.entries) = MaxListed

C34_FlagCleared == syncInProgress ~> ~syncInProgress

\* a task has ended on a failure path (offline or a failed updateGist) or
\* on the unconfigured path, and the flag is clear with the process alive
C34_Witness ==
  /\ proc.kind = "dashboard" /\ ~syncInProgress /\ tasks = <<>>
  /\ \E c \in 1..Len(calls) : calls[c].started /\ calls[c].fin
  /\ proc.cut \/ ~Configured(cfg)

(* C35: initializeGistSync saves the sync config only once the createGist
   or updateGist of its case has succeeded: after a setup sync that sent a
   write and returned, the configured gist holds what was sent; when the
   write fails the error is raised and the config document and the storage
   document are as they were when initializeGistSync was called. *)
C35_ConfigAfterRemote ==
  [][(proc = NoProc /\ sync'.op = "init") =>
       /\ sync'.thrown => /\ sync'.sent
                          /\ cfg' = cfg
                          /\ store' = storageCreated
       /\ (sync'.sent /\ ~sync'.thrown) =>
            /\ Configured(cfg')
            /\ gists'[cfg'.gistId] = File(sync'.doc)
       /\ cfg' # cfg => ~sync'.thrown]_vars

\* a setup sync whose update of the merged entries failed: the error was
\* raised, the saved config and the local entries are still there
C35_Witness ==
  /\ sync.op = "init" /\ sync.thrown /\ sync.path = "merged"
  /\ cfg = Config("tok", 1) /\ store.entries = sync.local
  /\ gists[1] = sync.before

(* C36 as stated: an entry removed from the local store by remove is not
   put back by a later sync of the device. In SpecForget every entry starts
   in the store and only remove takes one out, so a timestamp the store
   does not hold is a removed one: no step adds such a timestamp to the
   storage document. *)
C36_Original ==
  [][\A t \in Timestamps :
       t \notin TimestampsOf(store.entries) => t \notin TimestampsOf(store'.entries)]_vars

(* C37: list without --sync, and list --sync on a machine where sync is not
   configured, does not write the storage document: the document is the
   same after it and no full sync ran; at most a background push of the
   entries read is started. *)
C37_ListWritesNothing ==
  [][\A s, o, f, u \in BOOLEAN :
       (ListCmd(s, o, f, u) /\ ~(s /\ Configured(cfg))) =>
          /\ store' = store
          /\ sync' = NoSync
          /\ gists' = gists
          /\ tasks' # <<>> => tasks'[Len(tasks')].entriesToSync = store.entries]_vars

\* a list without full sync has shown a store whose remote copy lacks one of
\* its entries, and started a background push
C37_Witness ==
  /\ proc.kind = "list" /\ proc.pc = "done" /\ sync.op = "none"
  /\ tasks # <<>> /\ tasks[1].entriesToSync = store.entries
  /\ TimestampsOf(RemoteOf.entries) # TimestampsOf(store.entries)

(* C38: after a list --sync whose push succeeded the storage document and
   the remote document hold the same sequence of entries; after one whose
   push of the merged entries failed the storage document holds the merged
   entries and the remote document is what it was. *)
C38_ListSyncOutcome ==
  proc.kind = "list" /\ sync.op = "full" =>
    /\ sync.ok => RemoteOf.hasFile /\ store.entries = RemoteOf.entries
    /\ (sync.path = "merged" /\ ~sync.ok) =>
         /\ store.entries = mergeEntries(sync.local, sync.before.entries)
         /\ RemoteOf = sync.before

\* the push of a merge that added a remote entry failed: the store has the
\* entry, the remote lacks a local one
C38_Witness ==
  /\ proc.kind = "list" /\ sync.op = "full" /\ sync.path = "merged" /\ ~sync.ok
  /\ Len(store.entries) > Len(sync.local)
  /\ TimestampsOf(sync.local) \ TimestampsOf(RemoteOf.entries) # {}

\* the push of a merge succeeded and changed both documents
C38_WitnessPushed ==
  /\ proc.kind = "list" /\ sync.op = "full" /\ sync.path = "merged" /\ sync.ok
  /\ store.entries # sync.local /\ RemoteOf # sync.before

(* C39: in the dashboard the input cursor stays within the input line,
   0 <= inputCursor <= length(currentInput), after every key: characters,
   Backspace, Delete, Left, Right, Home, End, Enter, Escape, and Ctrl+S,
   whose clearing of the line may come after further keys were typed while
   its file write was pending. *)
C39_CursorInRange ==
  /\ 0 <= ui.inputCursor
  /\ ui.inputCursor <= Len(ui.currentInput)

\* while a save awaits its file write the line was edited and a cursor key
\* has put the cursor inside it
C39_Witness ==
  /\ proc.kind = "dashboard" /\ ui.saving > 0 /\ ui.activeMode = EDITING_MODE
  /\ ui.key \in CursorKeys
  /\ 0 < ui.inputCursor /\ ui.inputCursor < Len(ui.currentInput)

====
